---- MODULE Spec2Model ----
(***************************************************************************)
(* Bera AI: the chat endpoint POST /api/bera-ai of the seven server builds *)
(* kept in the repository, with the intent classifier, the identity guard  *)
(* and the parameter extractors they call.                                 *)
(*                                                                         *)
(*   build 1  src/server.js            1-619    GiftedTech chat, basic     *)
(*   build 2  src/server.js          621-1305   OpenAI, identity guard     *)
(*   build 3  src/unnamed/part_000     1-834    GiftedTech enhanceResponse *)
(*   build 4  src/unnamed/part_000   835-1514   song search, auto-download *)
(*   build 5  src/unnamed/part_000  1515-2331   OpenAI, admin command      *)
(*   build 6  src/unnamed/part_000  2332-3217   OpenAI, classify(text,req) *)
(*   build 7  src/unnamed/part_000  3218-4122   song search, voice message *)
(*                                                                         *)
(* A text is a sequence of one-character strings, so that the regular      *)
(* expressions, toLowerCase, replace, trim and includes of the source are  *)
(* computed on characters.  The alphabet has no line terminator, so the    *)
(* `.' of a regular expression matches every character of a text.          *)
(***************************************************************************)
EXTENDS Integers, Sequences, FiniteSets, TLC

(***************************************************************************)
(* Strings                                                                 *)
(***************************************************************************)
UpperCase == <<"A","B","C","D","E","F","G","H","I","J","K","L","M","N","O","P","Q","R","S","T","U","V","W","X","Y","Z">>

LowerCase == <<"a","b","c","d","e","f","g","h","i","j","k","l","m","n","o","p","q","r","s","t","u","v","w","x","y","z">>

\* the lower-case letter of each upper-case letter
lowerOf ==
    [c \in { UpperCase[k] : k \in 1..Len(UpperCase) } |->
        LowerCase[CHOOSE k \in 1..Len(UpperCase) : UpperCase[k] = c]]

\* String.prototype.toLowerCase on one character
toLowerChar(c) == IF c \in DOMAIN lowerOf THEN lowerOf[c] ELSE c

\* String.prototype.toLowerCase
RECURSIVE toLowerCase(_)
toLowerCase(s) == IF s = <<>> THEN <<>> ELSE <<toLowerChar(Head(s))>> \o toLowerCase(Tail(s))

\* the characters \s matches, among those of the alphabet
WhiteSpace == {" "}

\* lit occurs in s at position i
OccursAt(s, lit, i) ==
    /\ i >= 1
    /\ i + Len(lit) - 1 <= Len(s)
    /\ s[i] = lit[1]
    /\ SubSeq(s, i, i + Len(lit) - 1) = lit

\* String.prototype.indexOf(lit, i), counting positions from 1; 0 when lit
\* does not occur at or after position i
RECURSIVE indexOf(_, _, _)
indexOf(s, lit, i) ==
    IF i + Len(lit) - 1 > Len(s) THEN 0
    ELSE IF OccursAt(s, lit, i) THEN i
    ELSE indexOf(s, lit, i + 1)

\* String.prototype.includes
includes(s, lit) == indexOf(s, lit, 1) # 0

MinOf(S) == CHOOSE x \in S : \A y \in S : x <= y

\* the position after the earliest-ending occurrence, at or after from, of one
\* of the literals alts; 0 when there is none
FirstEnd(s, alts, from) ==
    LET ends == { indexOf(s, a, from) + Len(a) : a \in { x \in alts : indexOf(s, x, from) # 0 } }
    IN  IF ends = {} THEN 0 ELSE MinOf(ends)

\* RegExp.prototype.test for (g1).*(g2).* ... .*(gn), each group an
\* alternation of literals, searched from position from
RECURSIVE ChainFrom(_, _, _)
ChainFrom(s, groups, from) ==
    IF groups = <<>> THEN TRUE
    ELSE LET e == FirstEnd(s, Head(groups), from)
         IN  e # 0 /\ ChainFrom(s, Tail(groups), e)

\* RegExp.prototype.test for an alternation of such chains; case-insensitive
\* (flag i, or a pattern in lower case applied to toLowerCase of the text)
test(re, s) == LET lowerText == toLowerCase(s) IN \E chain \in re : ChainFrom(lowerText, chain, 1)

\* String.prototype.trim
RECURSIVE trimStart(_)
trimStart(s) == IF s # <<>> /\ Head(s) \in WhiteSpace THEN trimStart(Tail(s)) ELSE s

RECURSIVE trimEnd(_)
trimEnd(s) == IF s # <<>> /\ s[Len(s)] \in WhiteSpace THEN trimEnd(SubSeq(s, 1, Len(s) - 1)) ELSE s

trim(s) == trimEnd(trimStart(s))

\* the literals of alts (in the order of the alternation) that occur at i in
\* the lower-case text l
MatchingAt(l, alts, i) == SelectSeq(alts, LAMBDA a : OccursAt(l, a, i))

\* s.replace(/a1|a2|.../gi, '') from position i on, l being toLowerCase(s):
\* scanning left to right, the first alternative that matches at a position
\* is removed
RECURSIVE removeFrom(_, _, _, _)
removeFrom(s, l, alts, i) ==
    IF i > Len(s) THEN <<>>
    ELSE LET m == MatchingAt(l, alts, i)
         IN  IF m # <<>> THEN removeFrom(s, l, alts, i + Len(Head(m)))
             ELSE <<s[i]>> \o removeFrom(s, l, alts, i + 1)

\* String.prototype.replace(/a1|a2|.../gi, '')
removeAll(s, alts) == removeFrom(s, toLowerCase(s), alts, 1)

(***************************************************************************)
(* Intent classifier and identity guard                                    *)
(*                                                                         *)
(* A regular expression is a set of chains (its top-level alternatives);   *)
(* a chain is a sequence of groups joined by `.*'; a group is a set of     *)
(* literals.  (a.*b|c.*b).*(x|y) is written a.*b.*(x|y) | c.*b.*(x|y).     *)
(***************************************************************************)
Builds == 1..7

\* /(who.*created.*bera|who.*owns.*bera|who.*made.*you|who.*is.*your.*creator)/i
reIdentity ==
    { << {<<"w","h","o">>}, {<<"c","r","e","a","t","e","d">>}, {<<"b","e","r","a">>} >>,
      << {<<"w","h","o">>}, {<<"o","w","n","s">>}, {<<"b","e","r","a">>} >>,
      << {<<"w","h","o">>}, {<<"m","a","d","e">>}, {<<"y","o","u">>} >>,
      << {<<"w","h","o">>}, {<<"i","s">>}, {<<"y","o","u","r">>}, {<<"c","r","e","a","t","o","r">>} >> }

\* /(download|convert|get|save).*(youtube|video|audio|mp3|mp4)/i  ||  /(yt|youtu\.be|youtube\.com)/
reMediaDownload ==
    { << {<<"d","o","w","n","l","o","a","d">>, <<"c","o","n","v","e","r","t">>, <<"g","e","t">>, <<"s","a","v","e">>}, {<<"y","o","u","t","u","b","e">>, <<"v","i","d","e","o">>, <<"a","u","d","i","o">>, <<"m","p","3">>, <<"m","p","4">>} >>,
      << {<<"y","t">>, <<"y","o","u","t","u",".","b","e">>, <<"y","o","u","t","u","b","e",".","c","o","m">>} >> }

\* /(what.*song|identify.*song|shazam|recognize.*music|name.*this.*track)/i
reRecognition ==
    { << {<<"w","h","a","t">>}, {<<"s","o","n","g">>} >>,
      << {<<"i","d","e","n","t","i","f","y">>}, {<<"s","o","n","g">>} >>,
      << {<<"s","h","a","z","a","m">>} >>,
      << {<<"r","e","c","o","g","n","i","z","e">>}, {<<"m","u","s","i","c">>} >>,
      << {<<"n","a","m","e">>}, {<<"t","h","i","s">>}, {<<"t","r","a","c","k">>} >> }

\* /(upload.*audio|record.*song)/i
reUploadRecord ==
    { << {<<"u","p","l","o","a","d">>}, {<<"a","u","d","i","o">>} >>,
      << {<<"r","e","c","o","r","d">>}, {<<"s","o","n","g">>} >> }

\* /(create.*music|make.*song|generate.*track|compose.*music)/i
reGeneration ==
    { << {<<"c","r","e","a","t","e">>}, {<<"m","u","s","i","c">>} >>,
      << {<<"m","a","k","e">>}, {<<"s","o","n","g">>} >>,
      << {<<"g","e","n","e","r","a","t","e">>}, {<<"t","r","a","c","k">>} >>,
      << {<<"c","o","m","p","o","s","e">>}, {<<"m","u","s","i","c">>} >> }

\* the alternative new.*song that builds 2, 3, 5 and 6 add to reGeneration
reNewSong == { << {<<"n","e","w">>}, {<<"s","o","n","g">>} >> }

\* /(help|support|guide|what.*can.*you.*do)/i
reHelp ==
    { << {<<"h","e","l","p">>, <<"s","u","p","p","o","r","t">>, <<"g","u","i","d","e">>} >>,
      << {<<"w","h","a","t">>}, {<<"c","a","n">>}, {<<"y","o","u">>}, {<<"d","o">>} >> }

\* the alternative how.*to that builds 2, 3, 5 and 6 add to reHelp
reHowTo == { << {<<"h","o","w">>}, {<<"t","o">>} >> }

\* /(system.*status|admin.*access|developer.*mode|bera.*debug)/i
reAdmin ==
    { << {<<"s","y","s","t","e","m">>}, {<<"s","t","a","t","u","s">>} >>,
      << {<<"a","d","m","i","n">>}, {<<"a","c","c","e","s","s">>} >>,
      << {<<"d","e","v","e","l","o","p","e","r">>}, {<<"m","o","d","e">>} >>,
      << {<<"b","e","r","a">>}, {<<"d","e","b","u","g">>} >> }

\* /(download|get|fetch|find).*(song|music|track|audio|mp3|by)/i  ||
\* /(can you.*download|please.*download|i want.*download).*(song|music)/i
reSongDownload ==
    { << {<<"d","o","w","n","l","o","a","d">>, <<"g","e","t">>, <<"f","e","t","c","h">>, <<"f","i","n","d">>}, {<<"s","o","n","g">>, <<"m","u","s","i","c">>, <<"t","r","a","c","k">>, <<"a","u","d","i","o">>, <<"m","p","3">>, <<"b","y">>} >>,
      << {<<"c","a","n"," ","y","o","u">>}, {<<"d","o","w","n","l","o","a","d">>}, {<<"s","o","n","g">>, <<"m","u","s","i","c">>} >>,
      << {<<"p","l","e","a","s","e">>}, {<<"d","o","w","n","l","o","a","d">>}, {<<"s","o","n","g">>, <<"m","u","s","i","c">>} >>,
      << {<<"i"," ","w","a","n","t">>}, {<<"d","o","w","n","l","o","a","d">>}, {<<"s","o","n","g">>, <<"m","u","s","i","c">>} >> }

\* build 4: /(download|get|save).*(video|mp4|visual)/i  ||  /as mp4|as video/i
reVideoDownload4 ==
    { << {<<"d","o","w","n","l","o","a","d">>, <<"g","e","t">>, <<"s","a","v","e">>}, {<<"v","i","d","e","o">>, <<"m","p","4">>, <<"v","i","s","u","a","l">>} >>,
      << {<<"a","s"," ","m","p","4">>, <<"a","s"," ","v","i","d","e","o">>} >> }

\* build 4: /(youtube\.com|youtu\.be)/
reUrlDownload4 == { << {<<"y","o","u","t","u","b","e",".","c","o","m">>, <<"y","o","u","t","u",".","b","e">>} >> }

\* build 7: /(download|convert|get|save).*(youtube|video|mp4)/i  ||  /(yt|youtu\.be|youtube\.com)/
reVideoDownload7 ==
    { << {<<"d","o","w","n","l","o","a","d">>, <<"c","o","n","v","e","r","t">>, <<"g","e","t">>, <<"s","a","v","e">>}, {<<"y","o","u","t","u","b","e">>, <<"v","i","d","e","o">>, <<"m","p","4">>} >>,
      << {<<"y","t">>, <<"y","o","u","t","u",".","b","e">>, <<"y","o","u","t","u","b","e",".","c","o","m">>} >> }

\* build 7: /(voice.*message|recorded.*audio|audio.*message)/i
reVoiceMessage ==
    { << {<<"v","o","i","c","e">>}, {<<"m","e","s","s","a","g","e">>} >>,
      << {<<"r","e","c","o","r","d","e","d">>}, {<<"a","u","d","i","o">>} >>,
      << {<<"a","u","d","i","o">>}, {<<"m","e","s","s","a","g","e">>} >> }

\* The value of req.headers['x-admin-token'] and of process.env.ADMIN_TOKEN
\* when it is not there
undefined == "undefined"

\* what a call that throws yields
Thrown == {"TypeError", "ReferenceError"}

\* build 1, IntentClassifier.classify
classify1(text) ==
    IF test(reIdentity, text) THEN "identity"
    ELSE IF test(reMediaDownload, text) THEN "download"
    ELSE IF test(reRecognition, text) THEN "music_recognition"
    ELSE IF test(reGeneration, text) THEN "music_generation"
    ELSE IF test(reHelp, text) THEN "help"
    ELSE "general"

\* build 2, IntentClassifier.classify
classify2(text) ==
    IF test(reMediaDownload, text) THEN "media_download"
    ELSE IF test(reRecognition, text) \/ test(reUploadRecord, text) THEN "music_recognition"
    ELSE IF test(reGeneration \cup reNewSong, text) THEN "music_generation"
    ELSE IF test(reHelp \cup reHowTo, text) THEN "help_request"
    ELSE "general_conversation"

\* build 3, IntentClassifier.classify (the text of build 2)
classify3(text) == classify2(text)

\* build 4, IntentClassifier.classify
classify4(text) ==
    IF test(reIdentity, text) THEN "identity"
    ELSE IF test(reSongDownload, text) THEN "song_download"
    ELSE IF test(reVideoDownload4, text) THEN "video_download"
    ELSE IF test(reUrlDownload4, text) THEN "url_download"
    ELSE IF test(reRecognition, text) THEN "music_recognition"
    ELSE IF test(reHelp, text) THEN "help"
    ELSE "general"

\* build 5, IntentClassifier.classify(text): the admin rule reads req, which
\* is not a parameter nor any variable in scope, so evaluating the right
\* operand of && throws a ReferenceError
classify5(text) ==
    IF test(reMediaDownload, text) THEN "media_download"
    ELSE IF test(reRecognition, text) \/ test(reUploadRecord, text) THEN "music_recognition"
    ELSE IF test(reGeneration \cup reNewSong, text) THEN "music_generation"
    ELSE IF test(reAdmin, text) THEN "ReferenceError"
    ELSE IF test(reHelp \cup reHowTo, text) THEN "help_request"
    ELSE "general_conversation"

\* a classifier whose admin rule takes any x-admin-token header: what the
\* comparison with ADMIN_TOKEN rules out
classifyAnyToken(text, adminHeader, ADMIN_TOKEN) ==
    IF test(reMediaDownload, text) THEN "media_download"
    ELSE IF test(reRecognition, text) \/ test(reUploadRecord, text) THEN "music_recognition"
    ELSE IF test(reGeneration \cup reNewSong, text) THEN "music_generation"
    ELSE IF test(reAdmin, text) /\ adminHeader # undefined THEN "admin_command"
    ELSE IF test(reHelp \cup reHowTo, text) THEN "help_request"
    ELSE "general_conversation"

\* build 6, IntentClassifier.classify(text, req)
classify6(text, adminHeader, ADMIN_TOKEN) ==
    IF test(reMediaDownload, text) THEN "media_download"
    ELSE IF test(reRecognition, text) \/ test(reUploadRecord, text) THEN "music_recognition"
    ELSE IF test(reGeneration \cup reNewSong, text) THEN "music_generation"
    ELSE IF test(reAdmin, text) /\ adminHeader = ADMIN_TOKEN THEN "admin_command"
    ELSE IF test(reHelp \cup reHowTo, text) THEN "help_request"
    ELSE "general_conversation"

\* build 7, IntentClassifier.classify
classify7(text) ==
    IF test(reIdentity, text) THEN "identity"
    ELSE IF test(reSongDownload, text) THEN "song_download"
    ELSE IF test(reVideoDownload7, text) THEN "video_download"
    ELSE IF test(reRecognition, text) \/ test(reUploadRecord, text) THEN "music_recognition"
    ELSE IF test(reVoiceMessage, text) THEN "voice_message"
    ELSE IF test(reGeneration, text) THEN "music_generation"
    ELSE IF test(reHelp, text) THEN "help"
    ELSE "general"

\* IntentClassifier.classify of build b, as the chat handler calls it: a
\* message that is not a string has no toLowerCase, which throws a TypeError
classify(b, message, adminHeader, ADMIN_TOKEN) ==
    IF message.kind # "string" THEN "TypeError"
    ELSE CASE b = 1 -> classify1(message.chars)
           [] b = 2 -> classify2(message.chars)
           [] b = 3 -> classify3(message.chars)
           [] b = 4 -> classify4(message.chars)
           [] b = 5 -> classify5(message.chars)
           [] b = 6 -> classify6(message.chars, adminHeader, ADMIN_TOKEN)
           [] b = 7 -> classify7(message.chars)

\* build 2, checkIdentityQuestions
identityPatterns2 ==
    { << {<<"w","h","o">>}, {<<"c","r","e","a","t","e","d">>}, {<<"b","e","r","a">>}, {<<"a","i">>} >>,
      << {<<"w","h","o">>}, {<<"o","w","n","s">>}, {<<"b","e","r","a">>}, {<<"a","i">>} >>,
      << {<<"w","h","o">>}, {<<"d","e","v","e","l","o","p","e","d">>}, {<<"b","e","r","a">>}, {<<"a","i">>} >>,
      << {<<"w","h","o">>}, {<<"m","a","d","e">>}, {<<"y","o","u">>} >>,
      << {<<"w","h","o">>}, {<<"i","s">>}, {<<"b","e","h","i","n","d">>}, {<<"b","e","r","a">>} >>,
      << {<<"o","p","e","n","a","i">>}, {<<"c","r","e","a","t","e","d">>}, {<<"y","o","u">>} >>,
      << {<<"o","p","e","n","a","i">>}, {<<"o","w","n","s">>}, {<<"y","o","u">>} >>,
      << {<<"w","h","o">>}, {<<"i","s">>}, {<<"y","o","u","r">>}, {<<"c","r","e","a","t","o","r">>} >>,
      << {<<"w","h","o">>}, {<<"i","s">>}, {<<"y","o","u","r">>}, {<<"o","w","n","e","r">>} >> }

\* build 3, checkIdentityQuestions
identityPatterns3 ==
    { << {<<"w","h","o">>}, {<<"c","r","e","a","t","e","d">>}, {<<"b","e","r","a">>}, {<<"a","i">>} >>,
      << {<<"w","h","o">>}, {<<"o","w","n","s">>}, {<<"b","e","r","a">>}, {<<"a","i">>} >>,
      << {<<"w","h","o">>}, {<<"d","e","v","e","l","o","p","e","d">>}, {<<"b","e","r","a">>}, {<<"a","i">>} >>,
      << {<<"w","h","o">>}, {<<"m","a","d","e">>}, {<<"y","o","u">>} >>,
      << {<<"w","h","o">>}, {<<"i","s">>}, {<<"b","e","h","i","n","d">>}, {<<"b","e","r","a">>} >>,
      << {<<"w","h","o">>}, {<<"i","s">>}, {<<"y","o","u","r">>}, {<<"c","r","e","a","t","o","r">>} >>,
      << {<<"w","h","o">>}, {<<"i","s">>}, {<<"y","o","u","r">>}, {<<"o","w","n","e","r">>} >>,
      << {<<"w","h","o">>}, {<<"i","s">>}, {<<"y","o","u","r">>}, {<<"d","e","v","e","l","o","p","e","r">>} >>,
      << {<<"d","i","d">>}, {<<"g","i","f","t","e","d","t","e","c","h">>}, {<<"m","a","k","e">>}, {<<"y","o","u">>} >>,
      << {<<"a","r","e">>}, {<<"y","o","u">>}, {<<"f","r","o","m">>}, {<<"g","i","f","t","e","d","t","e","c","h">>} >>,
      << {<<"w","h","o">>}, {<<"b","u","i","l","t">>}, {<<"y","o","u">>} >>,
      << {<<"w","h","o">>}, {<<"p","r","o","g","r","a","m","m","e","d">>}, {<<"y","o","u">>} >> }

\* builds 5 and 6, checkIdentityQuestions
identityPatterns5 ==
    identityPatterns2 \cup
    { << {<<"w","h","o">>}, {<<"i","s">>}, {<<"y","o","u","r">>}, {<<"d","e","v","e","l","o","p","e","r">>} >>,
      << {<<"d","i","d">>}, {<<"o","p","e","n","a","i">>}, {<<"m","a","k","e">>}, {<<"y","o","u">>} >>,
      << {<<"a","r","e">>}, {<<"y","o","u">>}, {<<"f","r","o","m">>}, {<<"o","p","e","n","a","i">>} >>,
      << {<<"w","h","o">>}, {<<"b","u","i","l","t">>}, {<<"y","o","u">>} >>,
      << {<<"w","h","o">>}, {<<"p","r","o","g","r","a","m","m","e","d">>}, {<<"y","o","u">>} >>,
      << {<<"w","h","o">>}, {<<"i","s">>}, {<<"y","o","u","r">>}, {<<"m","a","k","e","r">>} >> }

\* checkIdentityQuestions of build b (builds 2, 3, 5, 6); RegExp.test turns a
\* message that is not a string into its string form, which matches nothing
checkIdentityQuestions(b, message) ==
    /\ message.kind = "string"
    /\ test(CASE b = 2 -> identityPatterns2
              [] b = 3 -> identityPatterns3
              [] b \in {5, 6} -> identityPatterns5,
            message.chars)

(***************************************************************************)
(* Parameter extractors                                                    *)
(***************************************************************************)
\* null, and every other value the source only tests for truthiness ('')
null == <<>>

\* the length of the longest run, from position i, of characters that are in
\* the set chars (inside = TRUE) or outside it (inside = FALSE)
RECURSIVE runLength(_, _, _, _)
runLength(s, i, chars, inside) ==
    IF i <= Len(s) /\ ((s[i] \in chars) = inside) THEN 1 + runLength(s, i + 1, chars, inside) ELSE 0

\* message.match(/(https?:\/\/[^\s]+)/): element 0 of the leftmost match, or
\* null; the pattern is case-sensitive and is applied to the text as sent
urlMatch(text) ==
    LET starts == { i \in 1..Len(text) :
                      \E p \in {<<"h","t","t","p",":","/","/">>, <<"h","t","t","p","s",":","/","/">>} :
                          /\ OccursAt(text, p, i)
                          /\ runLength(text, i + Len(p), WhiteSpace, FALSE) >= 1 }
    IN  IF starts = {} THEN null
        ELSE LET i == MinOf(starts)
             IN  SubSeq(text, i, i + runLength(text, i, WhiteSpace, FALSE) - 1)

\* build 4, IntentClassifier.getDownloadFormat
getDownloadFormat(text) ==
    IF /\ test({ << {<<"m","p","4">>, <<"v","i","d","e","o">>, <<"v","i","s","u","a","l">>} >> }, text)
       /\ ~ test({ << {<<"m","p","3">>, <<"a","u","d","i","o">>} >> }, text)
    THEN "MP4"
    ELSE "MP3"

\* build 4: /download|get|fetch|find|song|music|track|audio|please|can you|could you/gi
stopWords4 == << <<"d","o","w","n","l","o","a","d">>, <<"g","e","t">>, <<"f","e","t","c","h">>, <<"f","i","n","d">>, <<"s","o","n","g">>, <<"m","u","s","i","c">>, <<"t","r","a","c","k">>, <<"a","u","d","i","o">>, <<"p","l","e","a","s","e">>, <<"c","a","n"," ","y","o","u">>, <<"c","o","u","l","d"," ","y","o","u">> >>

\* build 4: /as mp3|as mp4|as video/gi
formatWords4 == << <<"a","s"," ","m","p","3">>, <<"a","s"," ","m","p","4">>, <<"a","s"," ","v","i","d","e","o">> >>

\* build 4: /["']/g
quotes == << <<"\"">>, <<"'">> >>

\* build 4, IntentClassifier.extractSongRequest
extractSongRequest4(text) ==
    LET clean1 == trim(removeAll(text, stopWords4))
        clean2 == trim(removeAll(clean1, formatWords4))
        clean3 == trim(removeAll(clean2, quotes))
    IN  IF clean3 = <<>> THEN null ELSE clean3

\* build 4, YouTubeSearchService.searchSong: /download|get|song|music|track|audio/gi
searchStopWords4 == << <<"d","o","w","n","l","o","a","d">>, <<"g","e","t">>, <<"s","o","n","g">>, <<"m","u","s","i","c">>, <<"t","r","a","c","k">>, <<"a","u","d","i","o">> >>

\* build 4, YouTubeSearchService.searchSong: the query sent to the search API
searchQuery4(songQuery) == trim(removeAll(songQuery, searchStopWords4)) \o <<" ","o","f","f","i","c","i","a","l"," ","a","u","d","i","o">>

\* build 7, YouTubeSearchService.searchSong: the query sent to the search API
searchQuery7(songQuery) == songQuery \o <<" ","o","f","f","i","c","i","a","l"," ","a","u","d","i","o">>

\* the characters [^"'.?!] excludes
captureStop == {"\"", "'", ".", "?", "!"}

(***************************************************************************)
(* The patterns of build 7's extractSongRequest, as sequences of elements: *)
(*   lit   a literal, case-insensitive                                     *)
(*   ws    \s+                                                             *)
(*   opt   (?: ... )?  greedy                                              *)
(*   alt   (?: a | b )                                                     *)
(*   q     ["']?                                                           *)
(*   cap   ([^"'.?!]+(?:by\s+[^"'.?!]+)?)["']?   at the end of the pattern *)
(***************************************************************************)
Lit(v) == [t |-> "lit", v |-> v]

Ws == [t |-> "ws", v |-> <<>>]

Opt(v) == [t |-> "opt", v |-> v]

Alt(v) == [t |-> "alt", v |-> v]

Q == [t |-> "q", v |-> <<>>]

Cap == [t |-> "cap", v |-> <<>>]

RECURSIVE Concat(_)
Concat(seqs) == IF seqs = <<>> THEN <<>> ELSE Head(seqs) \o Concat(Tail(seqs))

\* The captures of the matches of the elements elems at position pos of s (l
\* being toLowerCase(s)), in the order in which a backtracking matcher finds them (greedy first).  The
\* class of the capture takes the longest run: the optional by-part and the
\* optional quote after it then match the empty string, and nothing follows.
RECURSIVE matchesAt(_, _, _, _)
matchesAt(elems, s, l, pos) ==
    IF elems = <<>> THEN << <<>> >>
    ELSE LET e == Head(elems)
             rest == Tail(elems)
         IN  CASE e.t = "lit" ->
                    IF OccursAt(l, e.v, pos) THEN matchesAt(rest, s, l, pos + Len(e.v)) ELSE <<>>
               [] e.t = "ws" ->
                    LET k == runLength(s, pos, WhiteSpace, TRUE)
                    IN  Concat([n \in 1..k |-> matchesAt(rest, s, l, pos + (k + 1 - n))])
               [] e.t = "opt" ->
                    matchesAt(e.v \o rest, s, l, pos) \o matchesAt(rest, s, l, pos)
               [] e.t = "alt" ->
                    Concat([n \in 1..Len(e.v) |-> matchesAt(e.v[n] \o rest, s, l, pos)])
               [] e.t = "q" ->
                    (IF pos <= Len(s) /\ s[pos] \in {"\"", "'"} THEN matchesAt(rest, s, l, pos + 1) ELSE <<>>)
                        \o matchesAt(rest, s, l, pos)
               [] e.t = "cap" ->
                    LET k == runLength(s, pos, captureStop, FALSE)
                    IN  IF k >= 1 THEN << SubSeq(s, pos, pos + k - 1) >> ELSE <<>>

\* text.match(pattern): capture 1 of the leftmost match, or null
match1(pattern, text) ==
    LET l == toLowerCase(text)
        starts == { i \in 1..Len(text) : matchesAt(pattern, text, l, i) # <<>> }
    IN  IF starts = {} THEN null ELSE Head(matchesAt(pattern, text, l, MinOf(starts)))

\* build 7, IntentClassifier.extractSongRequest: patterns
songPatterns7 ==
    << << Lit(<<"d","o","w","n","l","o","a","d">>), Ws, Opt(<< Lit(<<"t","h","e">>), Ws >>), Opt(<< Lit(<<"s","o","n","g">>), Ws >>), Q, Cap >>,
       << Lit(<<"g","e","t">>), Ws, Opt(<< Lit(<<"m","e">>), Ws >>), Opt(<< Lit(<<"t","h","e">>), Ws >>), Opt(<< Lit(<<"s","o","n","g">>), Ws >>), Q, Cap >>,
       << Lit(<<"c","a","n"," ","y","o","u"," ","d","o","w","n","l","o","a","d">>), Ws, Opt(<< Lit(<<"t","h","e">>), Ws >>), Opt(<< Lit(<<"s","o","n","g">>), Ws >>), Q, Cap >>,
       << Lit(<<"i"," ","w","a","n","t"," ">>), Alt(<< << Lit(<<"t","o"," ","d","o","w","n","l","o","a","d">>) >>, << Lit(<<"t","h","e"," ","s","o","n","g">>) >> >>), Ws, Q, Cap >> >>

\* build 7, IntentClassifier.extractSongRequest: the trimmed capture of the
\* first pattern that matches with a capture, or null
extractSongRequest7(text) ==
    LET hits == SelectSeq(songPatterns7, LAMBDA p : match1(p, text) # null)
    IN  IF hits = <<>> THEN null ELSE trim(match1(Head(hits), text))

(***************************************************************************)
(* Requests                                                                *)
(***************************************************************************)
\* the most phrases a message text is made of
MaxPhrases == 2

\* the phrases message texts are made of
Phrases ==
    << <<"w","h","o"," ","m","a","d","e"," ","y","o","u">>,
       <<"D","o","w","n","l","o","a","d">>,
       <<"h","t","t","p","s",":","/","/","y","o","u","t","u",".","b","e","/","x">>,
       <<"a","s"," ","m","p","4">>,
       <<"v","i","d","e","o"," ","a","s"," ","m","p","3">>,
       <<"S","h","a","p","e"," ","o","f"," ","Y","o","u"," ","b","y"," ","E","d"," ","S","h","e","e","r","a","n">> >>

\* the phrases ps, separated by single spaces
RECURSIVE Join(_)
Join(ps) ==
    IF ps = <<>> THEN <<>>
    ELSE IF Len(ps) = 1 THEN Phrases[Head(ps)]
    ELSE Phrases[Head(ps)] \o <<" ">> \o Join(Tail(ps))

\* message texts that are sent as they are
WholeTexts ==
    { <<" ">>,
      <<" "," "," ">>,
      <<"w","h","o"," ","c","r","e","a","t","e","d"," ","y","o","u",","," ","c","a","n"," ","y","o","u"," ","a","l","s","o"," ","d","o","w","n","l","o","a","d"," ","t","h","i","s"," ","s","o","n","g">>,
      <<"s","y","s","t","e","m"," ","s","t","a","t","u","s">>,
      <<"h","e","l","p">>,
      <<"w","h","a","t"," ","s","o","n","g"," ","i","s"," ","t","h","i","s">>,
      <<"c","r","e","a","t","e"," ","m","u","s","i","c">>,
      <<"D","o","w","n","l","o","a","d"," ","s","o","n","g">>,
      <<"f","i","n","d"," ","t","h","i","s"," ","s","o","n","g">>,
      <<"D","o","w","n","l","o","a","d"," ","T","o","g","e","t","h","e","r"," ","b","y"," ","S","i","a">>,
      <<"h","e","l","l","o">> }

\* the message texts: the empty string, every text of 1..MaxPhrases phrases,
\* and the whole texts
Texts == { Join(ps) : ps \in UNION { [1..n -> 1..Len(Phrases)] : n \in 0..MaxPhrases } } \cup WholeTexts

String(chars) == [kind |-> "string", chars |-> chars]

\* req.body.message: a string, nothing, or a JSON number
Messages == { String(t) : t \in Texts } \cup { [kind |-> "undefined", chars |-> <<>>], [kind |-> "number", chars |-> <<>>] }

\* Boolean(message): '' and undefined are falsy, the number is not 0
truthy(message) ==
    \/ message.kind = "number"
    \/ message.kind = "string" /\ message.chars # <<>>

\* the values of the x-admin-token header: not sent, the token "secret", or
\* some other string
AdminHeaders == {undefined, "secret", "guess"}

\* process.env: nothing configured, or every key and the admin token set
Environments ==
    { [ADMIN_TOKEN |-> undefined, ELEVENLABS_API_KEY |-> FALSE, OPENAI_API_KEY |-> FALSE, ACRCLOUD_ACCESS_KEY |-> FALSE, GIFTEDTECH_API_KEY |-> FALSE],
      [ADMIN_TOKEN |-> "secret", ELEVENLABS_API_KEY |-> TRUE, OPENAI_API_KEY |-> TRUE, ACRCLOUD_ACCESS_KEY |-> TRUE, GIFTEDTECH_API_KEY |-> TRUE] }

\* the requests of the chat endpoint of build b with a message of messages:
\* voice is the voice flag of the body (voice in builds 1 and 7,
\* voiceEnabled in builds 2, 3, 5 and 6; build 4 reads none), adminHeader the
\* x-admin-token header (read by builds 5 and 6 only), audio says that
\* audio_data and audio_type are there (read by build 7 only)
Requests(b, messages) ==
    { [message |-> m, voice |-> v, adminHeader |-> h, audio |-> a] :
        m \in messages,
        v \in (IF b = 4 THEN {FALSE} ELSE BOOLEAN),
        h \in (IF b \in {5, 6} THEN AdminHeaders ELSE {undefined}),
        a \in (IF b = 7 THEN BOOLEAN ELSE {FALSE}) }

(***************************************************************************)
(* Values of the handlers                                                  *)
(***************************************************************************)
\* a property that is not there, and one that is
Absent == <<>>
Some(v) == <<v>>

\* a string built from a template literal: tpl with ${0}, ${1}.. for args
Text(tpl, args) == [tpl |-> tpl, args |-> args]

\* a string given by its characters
Raw(chars) == Text("${0}", <<chars>>)

\* 'MP3' and 'MP4' as characters
formatChars(format) == IF format = "MP4" THEN <<"M","P","4">> ELSE <<"M","P","3">>

\* the object under `response` of the JSON body, with the properties the
\* handlers set: voice is response.voice of builds 1 and 7, voice_audio is
\* response.voice_audio with response.voice_format of builds 2, 3, 5 and 6
Body(type, message) ==
    [type |-> type, message |-> message, url |-> Absent, format |-> Absent,
     action |-> Absent, song |-> Absent, youtube_url |-> Absent,
     download_data |-> Absent, voice_enabled |-> Absent, voice |-> Absent, voice_audio |-> Absent]

NoBody == Body("", Text("", <<>>))

\* what res.status(..).json(..) sends: the status, and of the JSON body
\* success, error and response, and whether system (sent with every
\* response object and with nothing else), creator, timestamp and details
\* are there
Http(status, success, error, response, timestamp) ==
    [status |-> status, success |-> success, error |-> error, response |-> response,
     system |-> response # Absent, creator |-> TRUE, timestamp |-> timestamp, details |-> FALSE]

\* nothing sent yet
NotSent == [Http(0, Absent, Absent, Absent, FALSE) EXCEPT !.creator = FALSE]

\* the local variables a handler keeps across its awaits
Locals(songRequest, format, title, url) ==
    [songRequest |-> songRequest, format |-> format, title |-> title, url |-> url]

NoLocals == Locals(null, "", null, null)

\* a call of a service class: arg is what the handler passes
Call(client, arg) == [client |-> client, arg |-> arg, sent |-> FALSE, outcome |-> "pending"]

\* where a handler stands after a run of synchronous code: pc is "done" or
\* the await it stopped at, call is the service call it made (if any)
Step(pc, intent, response, local, call, http) ==
    [pc |-> pc, intent |-> intent, response |-> response, local |-> local,
     call |-> call, http |-> http]

\* res.json / res.status(..).json: the handler is done
Send(intent, http) == Step("done", intent, NoBody, NoLocals, <<>>, http)

\* a handler that sends a response before its call returns and runs on:
\* what the handlers must not do
respondAndGoOn(pc, intent, response, local, call) ==
    Step(pc, intent, response, local, <<call>>, Http(200, Some(TRUE), Absent, Some(response), TRUE))

\* await of a service call
Await(pc, intent, response, local, call) == Step(pc, intent, response, local, <<call>>, NotSent)

\* the results of Math.random() are k / RandomSteps, k in 0..RandomSteps-1
RandomSteps == 4

Randoms == 0 .. RandomSteps - 1

\* Math.ceil(Math.random() * length), which reaches length: the index a
\* handler must not draw
ceilIndex(k, length) == (k * length + RandomSteps - 1) \div RandomSteps

\* Math.floor(Math.random() * length), for Math.random() = k / RandomSteps
randomIndex(k, length) == (k * length) \div RandomSteps

\* list[i] of a JavaScript array: undefined outside the array
elementAt(list, i, undef) == IF i + 1 \in 1..Len(list) THEN list[i + 1] ELSE undef

\* undefined as a message, and inside a template literal
undefinedText == Text("undefined", <<>>)
undefinedChars == <<"u","n","d","e","f","i","n","e","d">>

(***************************************************************************)
(* The service classes: what a call returns for each outcome of its        *)
(* outbound request                                                        *)
(***************************************************************************)
\* what the chat backend answers: a string or an object with result,
\* response or message ("reply"), an object with none of them ("payload",
\* and another such object "payload2"), no data ("empty"), an HTTP or
\* network error, or nothing within the timeout
ChatOutcomes == {"reply", "payload", "payload2", "empty", "error", "timeout"}

\* what the text-to-speech backend answers
SpeechOutcomes == {"audio", "error", "timeout"}

\* what the search backend answers: videos, no video, an error or timeout
SearchOutcomes == {"videos", "none", "error"}

\* what the download backend answers: a download link, data without a
\* link, an error or timeout
DownloadOutcomes == {"link", "nolink", "error"}

\* the reply of the chat backend, and JSON.stringify of a payload
upstreamReply == Raw(<<"H","i","!">>)
upstreamPayload == Raw(<<"{","\"","e","r","r","o","r","\"",":","\"","q","u","o","t","a","\"","}">>)
upstreamPayload2 == Raw(<<"{","\"","e","r","r","o","r","\"",":","\"","l","i","m","i","t","\"","}">>)

\* builds 1, 4, 7, GiftedAIService.getAIResponse: the string returned, or
\* Absent for null
getAIResponse(outcome) ==
    IF outcome = "reply" THEN Some(upstreamReply)
    ELSE IF outcome = "payload" THEN Some(upstreamPayload)
    ELSE IF outcome = "payload2" THEN Some(upstreamPayload2)
    ELSE Absent

\* the audio a speech service returns
audioMpeg == [audio |-> "base64", format |-> "audio/mpeg"]

(***************************************************************************)
(* Build 1: app.post('/api/bera-ai')                                       *)
(***************************************************************************)
identityMessage1 == Text("Bera AI was created, developed, and is exclusively owned by Bruce Bera. Third-party services are tools I use, but Bruce Bera is my sole creator and owner.", <<>>)

fallbackMessage1 == Text("I am Bera AI, created by Bruce Bera. How can I help you?", <<>>)

genres1 == << <<"e","l","e","c","t","r","o","n","i","c">>, <<"a","m","b","i","e","n","t">>, <<"c","i","n","e","m","a","t","i","c">>, <<"l","o","-","f","i">>, <<"s","y","n","t","h","w","a","v","e">>, <<"o","r","c","h","e","s","t","r","a","l">> >>

moods1 == << <<"u","p","l","i","f","t","i","n","g">>, <<"m","e","l","a","n","c","h","o","l","i","c">>, <<"e","n","e","r","g","e","t","i","c">>, <<"c","a","l","m">>, <<"m","y","s","t","e","r","i","o","u","s">>, <<"h","o","p","e","f","u","l">> >>

\* the final res.json of builds 1 and 7
ok1(response) == Http(200, Some(TRUE), Absent, Some(response), TRUE)

\* the res.json of the catch block
systemError1 == Http(200, Some(FALSE), Some("System error"), Absent, FALSE)

\* a voice step that speaks the identity message whatever the response
\* says: what the handlers must not do
speakIdentity1(intent, response, voice) ==
    IF voice = TRUE
    THEN Await("tts", intent, response, NoLocals, Call("tts", identityMessage1))
    ELSE Send(intent, ok1(response))

\* "Add voice if requested" and the final res.json
addVoice1(intent, response, voice) ==
    IF voice = TRUE
    THEN Await("tts", intent, response, NoLocals, Call("tts", response.message))
    ELSE Send(intent, ok1(response))

\* the handler up to its first await or its response; rnd are the results
\* of its Math.random() calls
start1(request, rnd) ==
    LET message == request.message IN
    IF ~truthy(message)
    THEN Send("", Http(200, Some(FALSE), Some("Message is required"), Absent, FALSE))
    ELSE
    LET intent == IF message.kind = "string" THEN classify1(message.chars) ELSE "TypeError" IN
    IF intent \in Thrown THEN Send("", systemError1)
    ELSE IF intent = "identity" THEN addVoice1(intent, Body("identity", identityMessage1), request.voice)
    ELSE IF intent = "download" THEN
        LET url == urlMatch(message.chars) IN
        IF url # null
        THEN addVoice1(intent, [Body("download", Text("I can help download that YouTube video. Use the download endpoints.", <<>>)) EXCEPT !.url = Some(url)], request.voice)
        ELSE addVoice1(intent, Body("download", Text("Send me a YouTube URL to download as MP3 or MP4.", <<>>)), request.voice)
    ELSE IF intent = "music_recognition" THEN
        addVoice1(intent, Body("music_recognition", Text("Upload an audio file to /api/music/identify and I will identify the song for you.", <<>>)), request.voice)
    ELSE IF intent = "music_generation" THEN
        LET genre == elementAt(genres1, randomIndex(rnd[1], Len(genres1)), undefinedChars)
            mood == elementAt(moods1, randomIndex(rnd[2], Len(moods1)), undefinedChars)
        IN addVoice1(intent, Body("music_generation", Text("I'll create a ${0} ${1} track for you. This will be an original composition.", <<mood, genre>>)), request.voice)
    ELSE IF intent = "help" THEN
        addVoice1(intent, Body("help", Text("I am Bera AI, created by Bruce Bera. I can help with: AI conversations, YouTube downloads, song identification, music generation, and voice synthesis.", <<>>)), request.voice)
    ELSE Await("chat", intent, NoBody, NoLocals, Call("chat", Raw(message.chars)))

\* a handler that asks the chat service again when it returned null: what
\* the handlers must not do
askAgain1(request, intent, outcome) ==
    IF getAIResponse(outcome) = Absent
    THEN Await("chat", intent, NoBody, NoLocals, Call("chat", Raw(request.message.chars)))
    ELSE addVoice1(intent, Body("ai_response", getAIResponse(outcome)[1]), request.voice)

\* the handler from the return of GiftedAIService.getAIResponse
afterChat1(request, intent, outcome) ==
    LET aiResponse == getAIResponse(outcome) IN
    addVoice1(intent, Body("ai_response", IF aiResponse # Absent THEN aiResponse[1] ELSE fallbackMessage1), request.voice)

\* the handler from the return of ElevenLabsService.generateSpeech
afterSpeech1(intent, response, outcome) ==
    IF outcome = "audio"
    THEN Send(intent, ok1([response EXCEPT !.voice = Some(audioMpeg)]))
    ELSE Send(intent, ok1(response))

(***************************************************************************)
(* Builds 2, 3, 5, 6: app.post('/api/bera-ai')                             *)
(***************************************************************************)
\* OpenAIService.enhanceResponse (builds 2, 5, 6) and
\* GiftedAIService.enhanceResponse (build 3): the text of the object
\* returned, or Absent for null
enhanceResponse(outcome) == IF outcome = "reply" THEN Some(upstreamReply) ELSE Absent

\* the final res.json of builds 2, 3, 5 and 6
ok2(response, timestamp) == Http(200, Some(TRUE), Absent, Some(response), timestamp)

\* the res.status(400).json of the message check
messageRequired2 == Http(400, Absent, Some("Message is required"), Absent, FALSE)
messageRequired5 == [messageRequired2 EXCEPT !.creator = FALSE]

\* the res.status(500).json of the catch block
internalError2 == Http(500, Absent, Some("Internal error"), Absent, FALSE)
internalError3 == Http(500, Absent, Some("Internal server error"), Absent, FALSE)
internalError6 == [internalError3 EXCEPT !.details = TRUE]

identityMessage2 == Text("Bera AI was created, developed, and is exclusively owned by Bruce Bera. Third-party services are tools only.", <<>>)
identityMessage3 == Text("Bera AI was created, developed, and is exclusively owned by Bruce Bera. GiftedTech APIs are tools I use for AI responses and media downloads, but GiftedTech is not my creator or owner. Bruce Bera is the sole creator and owner of Bera AI.", <<>>)
identityMessage5 == Text("Bera AI was created, developed, and is exclusively owned by Bruce Bera. Third-party services like OpenAI, ElevenLabs, or GiftedTech are tools I use, but they are not my creators or owners. Bruce Bera is the sole creator and owner of Bera AI.", <<>>)

provideUrl2 == Text("I can help download YouTube videos. Please provide a YouTube URL.", <<>>)
provideUrl3 == Text("I can help you download media from YouTube. Please provide the specific YouTube URL and specify if you want MP3 or MP4 format.", <<>>)

fallbacks2 ==
    << Text("I'm Bera AI, created by Bruce Bera. How can I help you today?", <<>>),
       Text("Hello! I'm Bera AI. I can assist with media downloads, music recognition, and music generation.", <<>>),
       Text("As Bera AI, created by Bruce Bera, I'm here to help with your media and music needs.", <<>>) >>

generalResponses3 ==
    << Text("I'm Bera AI, created by Bruce Bera. I can help you with media downloads, music recognition, and music generation.", <<>>),
       Text("Hello! I'm Bera AI. How can I assist you today? I specialize in music and media tasks.", <<>>),
       Text("As Bera AI, created by Bruce Bera, I'm here to help. You can ask me about downloading media, identifying songs, or creating music.", <<>>) >>

generalResponses5 ==
    generalResponses3 \o
    << Text("I'm Bera AI. Need help with YouTube downloads, song identification, or music creation? I'm here to assist.", <<>>) >>

\* a voice attachment that does not look at voiceEnabled: what the handlers
\* must not do
speakAlways(intent, response, voiceEnabled, timestamp) ==
    Await("tts", intent, response, NoLocals, Call("tts", response.message))

\* "Add voice if requested" and the final res.json
addVoice2(intent, response, voiceEnabled, timestamp) ==
    IF voiceEnabled
    THEN Await("tts", intent, response, NoLocals, Call("tts", response.message))
    ELSE Send(intent, ok2(response, timestamp))

\* build 2: the handler up to its first await or its response
start2(request) ==
    LET message == request.message
        voiceEnabled == request.voice
    IN
    IF ~truthy(message) THEN Send("", messageRequired2)
    ELSE IF checkIdentityQuestions(2, message)
    THEN addVoice2("", Body("identity_response", identityMessage2), voiceEnabled, FALSE)
    ELSE
    LET intent == IF message.kind = "string" THEN classify2(message.chars) ELSE "TypeError" IN
    IF intent \in Thrown THEN Send("", internalError2)
    ELSE IF intent = "media_download" THEN
        LET youtubeUrl == urlMatch(message.chars)
            isMP4 == includes(toLowerCase(message.chars), <<"m","p","4">>)
        IN
        IF youtubeUrl # null
        THEN addVoice2(intent,
                 [Body("media_download", Text("I can process that YouTube ${0}. Use the download API with the URL.", << IF isMP4 THEN <<"v","i","d","e","o"," ","a","s"," ","M","P","4">> ELSE <<"a","u","d","i","o"," ","a","s"," ","M","P","3">> >>))
                    EXCEPT !.url = Some(youtubeUrl), !.format = Some(IF isMP4 THEN "mp4" ELSE "mp3")],
                 voiceEnabled, TRUE)
        ELSE addVoice2(intent, Body("media_download", provideUrl2), voiceEnabled, TRUE)
    ELSE IF intent = "music_recognition" THEN
        addVoice2(intent, Body("music_recognition", Text("Upload an audio sample to /api/music/identify and I will identify the song.", <<>>)), voiceEnabled, TRUE)
    ELSE IF intent = "music_generation" THEN
        addVoice2(intent, Body("music_generation", Text("Music generation specifications ready.", <<>>)), voiceEnabled, TRUE)
    ELSE IF intent = "help_request" THEN
        addVoice2(intent, Body("help_request", Text("I am Bera AI, created by Bruce Bera. I can help with: YouTube downloads, song identification, music generation, and general questions.", <<>>)), voiceEnabled, TRUE)
    ELSE Await("chat", intent, NoBody, NoLocals, Call("chat", Raw(message.chars)))

\* build 2: the handler from the return of OpenAIService.enhanceResponse;
\* k / RandomSteps is the result of Math.random()
afterChat2(request, intent, outcome, k) ==
    LET openAIResponse == enhanceResponse(outcome) IN
    IF openAIResponse # Absent
    THEN addVoice2(intent, Body("enhanced_conversation", openAIResponse[1]), request.voice, TRUE)
    ELSE addVoice2(intent, Body("general_conversation", elementAt(fallbacks2, randomIndex(k, Len(fallbacks2)), undefinedText)), request.voice, TRUE)

\* a voice attachment that does not look at voiceResponse.success: what
\* the handlers must not do
attachAlways(b, intent, response, outcome) ==
    Send(intent, ok2([response EXCEPT !.voice_audio = Some(audioMpeg)], ~(b = 2 /\ response.type = "identity_response")))

\* builds 2, 3, 5, 6: the handler from the return of
\* VoiceService.generateSpeech; the identity response of build 2 is sent
\* without a timestamp
afterSpeech2(b, intent, response, outcome) ==
    LET timestamp == ~(b = 2 /\ response.type = "identity_response") IN
    IF outcome = "audio"
    THEN Send(intent, ok2([response EXCEPT !.voice_audio = Some(audioMpeg)], timestamp))
    ELSE Send(intent, ok2(response, timestamp))

\* build 3: the handler up to its first await or its response
start3(request) ==
    LET message == request.message
        voiceEnabled == request.voice
    IN
    IF ~truthy(message) \/ message.kind # "string" THEN Send("", messageRequired2)
    ELSE IF checkIdentityQuestions(3, message)
    THEN addVoice2("", Body("identity_response", identityMessage3), voiceEnabled, TRUE)
    ELSE
    LET intent == classify3(message.chars) IN
    IF intent \in Thrown THEN Send("", internalError3)
    ELSE IF intent = "media_download" THEN
        LET youtubeUrl == urlMatch(message.chars)
            isMP4 == includes(toLowerCase(message.chars), <<"m","p","4">>) \/ includes(toLowerCase(message.chars), <<"v","i","d","e","o">>)
        IN
        IF youtubeUrl # null
        THEN addVoice2(intent,
                 [Body("media_download", Text("I can help you download that YouTube ${0}. Use the download endpoint with this URL: ${1}", << IF isMP4 THEN <<"v","i","d","e","o"," ","a","s"," ","M","P","4">> ELSE <<"a","u","d","i","o"," ","a","s"," ","M","P","3">>, youtubeUrl >>))
                    EXCEPT !.url = Some(youtubeUrl), !.format = Some(IF isMP4 THEN "mp4" ELSE "mp3"),
                           !.action = Some(IF isMP4 THEN "processing_mp4" ELSE "processing_mp3")],
                 voiceEnabled, TRUE)
        ELSE addVoice2(intent, Body("media_download", provideUrl3), voiceEnabled, TRUE)
    ELSE IF intent = "music_recognition" THEN
        addVoice2(intent, Body("music_recognition", Text("I can identify songs for you. Please upload or record an audio sample of the song you want to recognize at the /api/music/identify endpoint.", <<>>)), voiceEnabled, TRUE)
    ELSE IF intent = "music_generation" THEN
        addVoice2(intent, Body("music_generation", Text("I can help you create original music. Here are the specifications for your requested track:", <<>>)), voiceEnabled, TRUE)
    ELSE IF intent = "help_request" THEN
        addVoice2(intent, Body("help_request", Text("I'm Bera AI, created by Bruce Bera. Here's what I can help you with:", <<>>)), voiceEnabled, TRUE)
    ELSE Await("chat", intent, NoBody, NoLocals, Call("chat", Raw(message.chars)))

\* build 3: the handler from the return of GiftedAIService.enhanceResponse
afterChat3(request, intent, outcome, k) ==
    LET giftedAIResponse == enhanceResponse(outcome) IN
    IF giftedAIResponse # Absent
    THEN addVoice2(intent, Body("enhanced_conversation", giftedAIResponse[1]), request.voice, TRUE)
    ELSE addVoice2(intent, Body("general_conversation", elementAt(generalResponses3, randomIndex(k, Len(generalResponses3)), undefinedText)), request.voice, TRUE)

\* builds 5 and 6, case 'admin_command'
adminCommand5(request, ADMIN_TOKEN) ==
    IF request.adminHeader = ADMIN_TOKEN
    THEN Body("admin_command", Text("Admin access granted", <<>>))
    ELSE [Body("general_conversation", Text("I'm Bera AI, created by Bruce Bera. How can I assist you today?", <<>>))
            EXCEPT !.voice_enabled = Some(request.voice)]

\* build 5: the handler up to its first await or its response
start5(request, ADMIN_TOKEN) ==
    LET message == request.message
        voiceEnabled == request.voice
    IN
    IF ~truthy(message) \/ message.kind # "string" THEN Send("", messageRequired5)
    ELSE IF checkIdentityQuestions(5, message)
    THEN addVoice2("", Body("identity_response", identityMessage5), voiceEnabled, TRUE)
    ELSE
    LET intent == classify5(message.chars) IN
    IF intent \in Thrown THEN Send("", internalError3)
    ELSE IF intent = "media_download" THEN
        addVoice2(intent, Body("media_download", provideUrl3), voiceEnabled, TRUE)
    ELSE IF intent = "music_recognition" THEN
        addVoice2(intent, Body("music_recognition", Text("I can identify songs for you. Please upload or record an audio sample of the song you want to recognize.", <<>>)), voiceEnabled, TRUE)
    ELSE IF intent = "music_generation" THEN
        addVoice2(intent, Body("music_generation", Text("I can help you create original music. Here are the specifications for your requested track:", <<>>)), voiceEnabled, TRUE)
    ELSE IF intent = "admin_command" THEN
        addVoice2(intent, adminCommand5(request, ADMIN_TOKEN), voiceEnabled, TRUE)
    ELSE IF intent = "help_request" THEN
        addVoice2(intent, Body("help_request", Text("I'm Bera AI, created by Bruce Bera. Here's what I can help you with:", <<>>)), voiceEnabled, TRUE)
    ELSE Await("chat", intent, NoBody, NoLocals, Call("chat", Raw(message.chars)))

\* builds 5 and 6: the handler from the return of
\* OpenAIService.enhanceResponse
afterChat5(request, intent, outcome, k) ==
    LET openAIResponse == enhanceResponse(outcome) IN
    IF openAIResponse # Absent
    THEN addVoice2(intent, Body("enhanced_conversation", openAIResponse[1]), request.voice, TRUE)
    ELSE addVoice2(intent,
             [Body("general_conversation", elementAt(generalResponses5, randomIndex(k, Len(generalResponses5)), undefinedText))
                EXCEPT !.voice_enabled = Some(request.voice)],
             request.voice, TRUE)

\* build 6: the handler up to its first await or its response
start6(request, ADMIN_TOKEN) ==
    LET message == request.message
        voiceEnabled == request.voice
    IN
    IF ~truthy(message) \/ message.kind # "string" THEN Send("", messageRequired5)
    ELSE IF checkIdentityQuestions(6, message)
    THEN addVoice2("", Body("identity_response", identityMessage5), voiceEnabled, TRUE)
    ELSE
    LET intent == classify6(message.chars, request.adminHeader, ADMIN_TOKEN) IN
    IF intent \in Thrown THEN Send("", internalError6)
    ELSE IF intent = "media_download" THEN
        LET youtubeUrl == urlMatch(message.chars)
            isMP4 == includes(toLowerCase(message.chars), <<"m","p","4">>) \/ includes(toLowerCase(message.chars), <<"v","i","d","e","o">>)
        IN
        IF youtubeUrl # null
        THEN addVoice2(intent,
                 [Body("media_download", Text("I'll process that YouTube video as ${0} for you. Processing: ${1}", << IF isMP4 THEN <<"M","P","4">> ELSE <<"M","P","3">>, youtubeUrl >>))
                    EXCEPT !.url = Some(youtubeUrl),
                           !.action = Some(IF isMP4 THEN "processing_mp4" ELSE "processing_mp3")],
                 voiceEnabled, TRUE)
        ELSE addVoice2(intent, Body("media_download", provideUrl3), voiceEnabled, TRUE)
    ELSE IF intent = "music_recognition" THEN
        addVoice2(intent, Body("music_recognition", Text("I can identify songs for you. Please upload or record an audio sample of the song you want to recognize.", <<>>)), voiceEnabled, TRUE)
    ELSE IF intent = "music_generation" THEN
        addVoice2(intent, Body("music_generation", Text("I can help you create original music. Here are the specifications for your requested track:", <<>>)), voiceEnabled, TRUE)
    ELSE IF intent = "admin_command" THEN
        addVoice2(intent, adminCommand5(request, ADMIN_TOKEN), voiceEnabled, TRUE)
    ELSE IF intent = "help_request" THEN
        addVoice2(intent, Body("help_request", Text("I'm Bera AI, created by Bruce Bera. Here's what I can help you with:", <<>>)), voiceEnabled, TRUE)
    ELSE Await("chat", intent, NoBody, NoLocals, Call("chat", Raw(message.chars)))

(***************************************************************************)
(* Builds 4 and 7: search and download services                            *)
(***************************************************************************)
\* the characters encodeURIComponent leaves as they are
Unreserved ==
    { UpperCase[i] : i \in 1..Len(UpperCase) } \cup { LowerCase[i] : i \in 1..Len(LowerCase) } \cup
    {"0", "1", "2", "3", "4", "5", "6", "7", "8", "9", "-", "_", ".", "!", "~", "*", "'", "(", ")"}

\* the percent-encoding of the other characters of the message texts
escapeOf ==
    [c \in {" ", ",", ":", "/", "?", "\"", "=", "&"} |->
        CASE c = " " -> <<"%","2","0">>
          [] c = "," -> <<"%","2","C">>
          [] c = ":" -> <<"%","3","A">>
          [] c = "/" -> <<"%","2","F">>
          [] c = "?" -> <<"%","3","F">>
          [] c = "\"" -> <<"%","2","2">>
          [] c = "=" -> <<"%","3","D">>
          [] c = "&" -> <<"%","2","6">>]

RECURSIVE encodeURIComponent(_)
encodeURIComponent(s) ==
    IF s = <<>> THEN <<>>
    ELSE (IF Head(s) \in Unreserved THEN <<Head(s)>> ELSE escapeOf[Head(s)]) \o encodeURIComponent(Tail(s))

\* the first video the search backend finds
videoTitle == <<"O","f","f","i","c","i","a","l"," ","A","u","d","i","o">>
videoId == <<"d","Q","w","4">>

\* YouTubeSearchService.searchSong of builds 4 and 7: the title and url of
\* the object returned (success is true for every outcome)
searchSong(songQuery, outcome) ==
    IF outcome = "videos"
    THEN [title |-> videoTitle, url |-> <<"h","t","t","p","s",":","/","/","w","w","w",".","y","o","u","t","u","b","e",".","c","o","m","/","w","a","t","c","h","?","v","=">> \o videoId]
    ELSE [title |-> songQuery, url |-> <<"h","t","t","p","s",":","/","/","w","w","w",".","y","o","u","t","u","b","e",".","c","o","m","/","r","e","s","u","l","t","s","?","s","e","a","r","c","h","_","q","u","e","r","y","=">> \o encodeURIComponent(songQuery)]

\* build 4, YouTubeDownloadService.downloadMP3: a search page is refused
\* before any request is made
refusesMP3(youtubeUrl) == includes(youtubeUrl, <<"/","r","e","s","u","l","t","s","?">>)

\* build 4, the outcomes of a download call
downloadOutcomes4(client, youtubeUrl) ==
    IF client = "mp3" /\ refusesMP3(youtubeUrl) THEN {"refused"} ELSE DownloadOutcomes

\* build 4, downloadMP3 and downloadMP4: success, and the error or the
\* download link of the object returned
download4(client, youtubeUrl, outcome) ==
    IF outcome = "refused"
    THEN [success |-> FALSE, error |-> <<"P","l","e","a","s","e"," ","p","r","o","v","i","d","e"," ","a"," ","d","i","r","e","c","t"," ","Y","o","u","T","u","b","e"," ","v","i","d","e","o"," ","U","R","L",","," ","n","o","t"," ","a"," ","s","e","a","r","c","h"," ","p","a","g","e",".">>, download_link |-> null]
    ELSE IF outcome = "error"
    THEN [success |-> FALSE,
          error |-> IF client = "mp3" THEN <<"M","P","3"," ","d","o","w","n","l","o","a","d"," ","f","a","i","l","e","d","."," ","T","h","e"," ","s","e","r","v","i","c","e"," ","m","i","g","h","t"," ","b","e"," ","t","e","m","p","o","r","a","r","i","l","y"," ","u","n","a","v","a","i","l","a","b","l","e",".">> ELSE <<"M","P","4"," ","d","o","w","n","l","o","a","d"," ","f","a","i","l","e","d">>,
          download_link |-> null]
    ELSE IF outcome = "link"
    THEN [success |-> TRUE, error |-> null, download_link |-> <<"h","t","t","p","s",":","/","/","c","d","n","/","f","i","l","e">>]
    ELSE [success |-> TRUE, error |-> null, download_link |-> IF client = "mp4" THEN youtubeUrl ELSE null]

(***************************************************************************)
(* Build 4: app.post('/api/bera-ai')                                       *)
(***************************************************************************)
\* the res.json of build 4
ok4(response) == Http(200, Some(TRUE), Absent, Some(response), FALSE)

\* "General conversation - use GiftedTech AI": what every branch that does
\* not return falls through to
general4(intent, message) == Await("chat", intent, NoBody, NoLocals, Call("chat", Raw(message.chars)))

\* the handler up to its first await or its response
start4(request) ==
    LET message == request.message IN
    IF ~truthy(message)
    THEN Send("", Http(200, Some(FALSE), Some("Message is required"), Absent, FALSE))
    ELSE
    LET intent == IF message.kind = "string" THEN classify4(message.chars) ELSE "TypeError" IN
    IF intent \in Thrown THEN Send("", systemError1)
    ELSE IF intent = "song_download" THEN
        LET songRequest == extractSongRequest4(message.chars)
            format == getDownloadFormat(message.chars)
        IN
        IF songRequest # null
        THEN Await("search", intent, NoBody, Locals(songRequest, format, null, null), Call("search", Raw(songRequest)))
        ELSE general4(intent, message)
    ELSE IF intent = "video_download" THEN
        LET songRequest == extractSongRequest4(message.chars) IN
        IF songRequest # null
        THEN Await("search", intent, NoBody, Locals(songRequest, "MP4", null, null), Call("search", Raw(songRequest)))
        ELSE general4(intent, message)
    ELSE IF intent = "url_download" THEN
        LET youtubeUrl == urlMatch(message.chars)
            format == IF includes(toLowerCase(message.chars), <<"m","p","4">>) THEN "MP4" ELSE "MP3"
        IN
        IF youtubeUrl # null
        THEN Send(intent, ok4([Body("url_download_ready", Text("Ready to download from URL as ${0}.", <<formatChars(format)>>))
                                 EXCEPT !.url = Some(youtubeUrl), !.format = Some(format)]))
        ELSE general4(intent, message)
    ELSE IF intent = "identity" THEN Send(intent, ok4(Body("identity", identityMessage1)))
    ELSE IF intent = "music_recognition" THEN
        Send(intent, ok4(Body("music_recognition", Text("Record or upload an audio sample and I will identify the song for you.", <<>>))))
    ELSE IF intent = "help" THEN
        Send(intent, ok4(Body("help", Text("I am Bera AI, created by Bruce Bera. I can help with:", <<>>))))
    ELSE general4(intent, message)

\* the handler from the return of YouTubeSearchService.searchSong
afterSearch4(intent, local, outcome) ==
    LET searchResult == searchSong(local.songRequest, outcome)
        found == Locals(local.songRequest, local.format, searchResult.title, searchResult.url)
    IN
    IF intent = "song_download"
    THEN Await("download", intent, NoBody, found,
               Call(IF local.format = "MP4" THEN "mp4" ELSE "mp3", Raw(searchResult.url)))
    ELSE Send(intent, ok4([Body("video_download_ready", Text("Found \"${0}\" - ready for MP4 download.", <<searchResult.title>>))
                             EXCEPT !.song = Some(searchResult.title), !.youtube_url = Some(searchResult.url), !.format = Some("MP4")]))

\* a handler that answers a download by downloading once more: what the
\* handlers must not do
downloadAgain4(intent, local, client, outcome) ==
    Await("download", intent, NoBody, local, Call(client, Raw(local.url)))

\* the handler from the return of downloadMP3 or downloadMP4
afterDownload4(intent, local, client, outcome) ==
    LET downloadResult == download4(client, local.url, outcome) IN
    IF downloadResult.success
    THEN Send(intent, ok4([Body("auto_download", Text("Found \"${0}\" and started ${1} download.", <<local.title, formatChars(local.format)>>))
                             EXCEPT !.song = Some(local.title), !.format = Some(local.format),
                                    !.download_data = Some(downloadResult)]))
    ELSE Send(intent, ok4([Body("download_failed", Text("Found \"${0}\" but download failed: ${1}", <<local.title, downloadResult.error>>))
                             EXCEPT !.song = Some(local.title), !.youtube_url = Some(local.url)]))

\* the handler from the return of GiftedAIService.getAIResponse
afterChat4(intent, outcome) ==
    LET aiResponse == getAIResponse(outcome) IN
    Send(intent, ok4(Body("ai_response", IF aiResponse # Absent THEN aiResponse[1] ELSE fallbackMessage1)))

(***************************************************************************)
(* Build 7: app.post('/api/bera-ai')                                       *)
(***************************************************************************)
\* SpeechToTextService.convertAudioToText: the text of the object returned
convertAudioToText == <<"I"," ","s","e","n","t"," ","a"," ","v","o","i","c","e"," ","m","e","s","s","a","g","e","."," ","P","l","e","a","s","e"," ","r","e","s","p","o","n","d"," ","t","o"," ","m","y"," ","v","o","i","c","e"," ","i","n","p","u","t",".">>

\* the res.json of the catch block
systemError7 == Http(200, Some(FALSE), Some("System error. Please try again."), Absent, FALSE)

\* finalMessage: the transcription when audio_data and audio_type are there
finalMessage7(request) ==
    IF request.audio THEN String(convertAudioToText) ELSE request.message

\* the handler up to its first await of an outbound call, or its response
start7(request, rnd) ==
    LET finalMessage == finalMessage7(request) IN
    IF ~truthy(finalMessage)
    THEN Send("", Http(200, Some(FALSE), Some("Message is required"), Absent, FALSE))
    ELSE
    LET intent == IF finalMessage.kind = "string" THEN classify7(finalMessage.chars) ELSE "TypeError" IN
    IF intent \in Thrown THEN Send("", systemError7)
    ELSE IF intent = "identity" THEN addVoice1(intent, Body("identity", identityMessage1), request.voice)
    ELSE IF intent = "song_download" THEN
        LET songRequest == extractSongRequest7(finalMessage.chars) IN
        IF songRequest # null
        THEN Await("search", intent, NoBody, Locals(songRequest, "", null, null), Call("search", Raw(songRequest)))
        ELSE addVoice1(intent, Body("song_request_unclear", Text("Please specify which song you want to download. Example: \"Download Gleeish Place by King Von\"", <<>>)), request.voice)
    ELSE IF intent = "video_download" THEN
        LET url == urlMatch(finalMessage.chars)
            isMP4 == includes(toLowerCase(finalMessage.chars), <<"m","p","4">>)
        IN
        IF url # null
        THEN addVoice1(intent,
                 [Body("video_download", Text("I can download that YouTube ${0}.", << IF isMP4 THEN <<"v","i","d","e","o"," ","a","s"," ","M","P","4">> ELSE <<"a","u","d","i","o"," ","a","s"," ","M","P","3">> >>))
                    EXCEPT !.url = Some(url), !.format = Some(IF isMP4 THEN "MP4" ELSE "MP3")],
                 request.voice)
        ELSE addVoice1(intent, Body("video_download_help", Text("Send me a YouTube URL to download as MP3 or MP4.", <<>>)), request.voice)
    ELSE IF intent = "music_recognition" THEN
        addVoice1(intent, Body("music_recognition", Text("Record or upload an audio sample and I will identify the song for you.", <<>>)), request.voice)
    ELSE IF intent = "voice_message" THEN
        addVoice1(intent, Body("voice_message_response", Text("I received your voice message! How can I help you today?", <<>>)), request.voice)
    ELSE IF intent = "music_generation" THEN
        LET genre == elementAt(genres1, randomIndex(rnd[1], Len(genres1)), undefinedChars)
            mood == elementAt(moods1, randomIndex(rnd[2], Len(moods1)), undefinedChars)
        IN addVoice1(intent, Body("music_generation", Text("I'll create a ${0} ${1} track for you. This will be an original composition.", <<mood, genre>>)), request.voice)
    ELSE IF intent = "help" THEN
        addVoice1(intent, Body("help", Text("I am Bera AI, created by Bruce Bera. I can help with:", <<>>)), request.voice)
    ELSE Await("chat", intent, NoBody, NoLocals, Call("chat", Raw(finalMessage.chars)))

\* the handler from the return of YouTubeSearchService.searchSong
afterSearch7(request, intent, local, outcome) ==
    LET searchResult == searchSong(local.songRequest, outcome) IN
    addVoice1(intent,
        [Body("song_found", Text("I found \"${0}\" on YouTube. Would you like to download it as MP3 (audio) or MP4 (video)?", <<searchResult.title>>))
           EXCEPT !.song = Some(searchResult.title), !.youtube_url = Some(searchResult.url)],
        request.voice)

(***************************************************************************)
(* The service classes as their callers see them: whether a method sends   *)
(* its request, and the value it returns                                   *)
(***************************************************************************)
\* the methods of the service classes of build b that stand for a remote
\* capability
ClientsOf(b) ==
    IF b = 1 THEN {"chat", "tts", "recognize", "mp3", "mp4", "direct"}
    ELSE IF b = 2 THEN {"chat", "mp3", "mp4", "recognize", "tts"}
    ELSE IF b \in {3, 5, 6} THEN {"chat", "mp3", "mp4", "direct", "recognize", "tts"}
    ELSE IF b = 4 THEN {"chat", "search", "mp3", "mp4"}
    ELSE {"chat", "search", "mp3", "mp4", "tts", "recognize", "stt"}

\* the process.env key the request of method c carries ("" when it
\* carries none: the giftedtech key is written into the URLs of builds 1,
\* 4, 7 and of the chat service of build 3)
keyOf(b, c) ==
    IF c = "tts" THEN "ELEVENLABS_API_KEY"
    ELSE IF c = "recognize" THEN "ACRCLOUD_ACCESS_KEY"
    ELSE IF c = "chat" /\ b \in {2, 5, 6} THEN "OPENAI_API_KEY"
    ELSE IF c \in {"mp3", "mp4", "direct"} /\ b \in {2, 3, 5, 6} THEN "GIFTEDTECH_API_KEY"
    ELSE ""

\* the capability of method c is configured in process.env e
configured(b, c, e) == keyOf(b, c) = "" \/ e[keyOf(b, c)]

\* method c looks at its key before it sends its request
checksKey(b, c) ==
    \/ c = "tts" /\ b # 5
    \/ c = "chat" /\ b \in {2, 5, 6}
    \/ c = "recognize" /\ b \in {1, 7}

\* the axios request of method c carries a timeout
hasTimeout(b, c) == ~(c = "tts" /\ b = 5)

\* method c sends a request: convertAudioToText of build 7 sends none, and
\* downloadMP3 of build 4 sends none for the URL of a search page
sends(b, c, arg) ==
    /\ c # "stt"
    /\ ~(b = 4 /\ c = "mp3" /\ arg = "results")

\* a value returned: null, a string, or an object with success, and what
\* it carries of the upstream answer: a payload ("none", the fields the
\* method picked or made up "own", the upstream data as received "raw"),
\* an error text, and details ("none", a fixed sentence "fixed", the
\* error.message of the failed request "raw")
Result(kind, success, payload, error, details) ==
    [kind |-> kind, success |-> success, payload |-> payload, error |-> error, details |-> details]

Null == Result("null", Absent, "none", Absent, "none")
Succeeded(payload) == Result("object", Some(TRUE), payload, Absent, "none")
Failed(error, details) == Result("object", Some(FALSE), "none", Some(error), details)

\* the value method c returns without sending a request
unsent(b, c) ==
    IF c = "stt" THEN Succeeded("own")
    ELSE IF c = "mp3" THEN Failed("Please provide a direct YouTube video URL, not a search page.", "none")
    ELSE IF c = "chat" THEN Null
    ELSE IF c = "tts" THEN (IF b = 1 THEN Failed("Voice generation failed", "none") ELSE Failed("Voice service not configured", "none"))
    ELSE IF b = 1 THEN Failed("Recognition service unavailable", "none")
    ELSE Succeeded("own")

\* the value the catch block of method c returns
caught(b, c) ==
    IF c = "chat" THEN Null
    ELSE IF c = "search" THEN Succeeded("own")
    ELSE IF c = "tts" THEN (IF b = 1 THEN Failed("Voice generation failed", "none") ELSE Failed("Voice service temporarily unavailable", "none"))
    ELSE IF c = "recognize" THEN
        (IF b = 7 THEN Succeeded("own")
         ELSE Failed("Recognition service unavailable", IF b = 1 THEN "none" ELSE IF b = 6 THEN "raw" ELSE "fixed"))
    ELSE IF b = 1 THEN Failed("Download failed", "none")
    ELSE IF b = 4 THEN Failed(IF c = "mp3" THEN "MP3 download failed. The service might be temporarily unavailable." ELSE "MP4 download failed", "none")
    ELSE IF b = 7 THEN Failed(IF c = "mp3" THEN "MP3 download service is currently unavailable" ELSE "MP4 download service is currently unavailable", "none")
    ELSE Failed("Download service temporarily unavailable", IF b = 6 THEN "raw" ELSE "fixed")

\* what the backend of a method answers: the data the method expects
\* ("ok"), other data ("payload": no link, no match, no known field), no
\* data ("empty"), or an HTTP or network error ("error")
Answers == {"ok", "payload", "empty", "error"}

\* the value method c returns when its request was answered
answered(b, c, answer) ==
    IF answer = "error" THEN caught(b, c)
    ELSE IF c = "chat" THEN
        (IF b \in {1, 4, 7}
         THEN (IF answer = "ok" THEN Result("string", Absent, "own", Absent, "none")
               ELSE IF answer = "payload" THEN Result("string", Absent, "raw", Absent, "none")
               ELSE Null)
         ELSE IF answer = "ok" THEN Succeeded("own") ELSE Null)
    ELSE IF c = "search" THEN Succeeded("own")
    ELSE IF c = "tts" THEN
        (IF answer = "empty" THEN caught(b, c) ELSE Succeeded(IF answer = "ok" THEN "own" ELSE "raw"))
    ELSE IF c = "recognize" THEN
        (IF answer = "ok" THEN Succeeded("own")
         ELSE IF answer = "empty" /\ b # 7 THEN caught(b, c)
         ELSE Failed("Song not recognized", IF b \in {1, 7} THEN "none" ELSE "fixed"))
    ELSE IF b \in {4, 7} THEN
        (IF answer = "ok" \/ ~(b = 4 /\ c = "mp3") THEN Succeeded("own")
         ELSE IF answer = "payload" THEN Succeeded("raw")
         ELSE Succeeded("none"))
    ELSE IF answer = "empty" THEN Succeeded("none") ELSE Succeeded("raw")

\* the arguments of a method: the URL of a video or of a search page for a
\* download, an input otherwise
argsOf(c) == IF c \in {"mp3", "mp4", "direct"} THEN {"video", "results"} ELSE {"input"}

\* no method is being called
NoService == [pc |-> "idle", client |-> "", arg |-> "", called |-> FALSE, answer |-> "", result |-> Null]

(***************************************************************************)
(* The other endpoints: app.post('/api/admin/status') and                  *)
(* app.post('/api/download/youtube-mp3'), app.post('/api/download/         *)
(* youtube-mp4')                                                           *)
(***************************************************************************)
\* the builds with an admin status endpoint
AdminBuilds == {1, 3, 5, 6}

\* what an endpoint sends: the status, success and error of the body, the
\* result of a service method spread into it, whether it is the operational
\* snapshot, and whether system, creator and timestamp are there
Reply(status, success, error, result, snapshot, system, timestamp) ==
    [status |-> status, success |-> success, error |-> error, result |-> result,
     snapshot |-> snapshot, system |-> system, creator |-> TRUE, timestamp |-> timestamp]

NoReply == [Reply(0, Absent, Absent, Absent, FALSE, FALSE, FALSE) EXCEPT !.creator = FALSE]

\* app.post('/api/admin/status'): header is req.headers['x-admin-token']
adminStatus(b, header, ADMIN_TOKEN) ==
    IF header # ADMIN_TOKEN
    THEN (IF b = 1 THEN Reply(200, Some(FALSE), Some("Unauthorized"), Absent, FALSE, FALSE, FALSE)
          ELSE Reply(403, Absent, Some("Unauthorized"), Absent, FALSE, FALSE, FALSE))
    ELSE Reply(200, IF b = 1 THEN Some(TRUE) ELSE Absent, Absent, Absent, TRUE, TRUE, b # 1)

\* the url of the body of a download request: none, a video on youtube.com,
\* a video on youtu.be, a search page of youtube.com, a page of another site
Urls == { null, <<"h","t","t","p","s",":","/","/","w","w","w",".","y","o","u","t","u","b","e",".","c","o","m","/","w","a","t","c","h","?","v","=","a","b","c">>, <<"h","t","t","p","s",":","/","/","y","o","u","t","u",".","b","e","/","a","b","c">>,
          <<"h","t","t","p","s",":","/","/","w","w","w",".","y","o","u","t","u","b","e",".","c","o","m","/","r","e","s","u","l","t","s","?","s","e","a","r","c","h","_","q","u","e","r","y","=","a","b","c">>, <<"h","t","t","p","s",":","/","/","e","x","a","m","p","l","e",".","c","o","m","/","a","b","c">> }

\* the url check of the download endpoints passes
acceptsUrl(b, url) ==
    IF b \in {1, 2, 4, 7} THEN url # null
    ELSE IF b = 5 THEN ~(url = null \/ ~includes(url, <<"y","o","u","t","u","b","e",".","c","o","m">>) \/ ~includes(url, <<"y","o","u","t","u",".","b","e">>))
    ELSE ~(url = null \/ ~(includes(url, <<"y","o","u","t","u","b","e",".","c","o","m">>) \/ includes(url, <<"y","o","u","t","u",".","b","e">>)))

\* what the download endpoints send when the check fails
urlRequired(b) ==
    IF b \in {1, 4, 7} THEN Reply(200, Some(FALSE), Some("YouTube URL required"), Absent, FALSE, FALSE, FALSE)
    ELSE IF b = 2 THEN Reply(400, Absent, Some("URL is required"), Absent, FALSE, FALSE, FALSE)
    ELSE Reply(400, Absent, Some("Valid YouTube URL is required"), Absent, FALSE, FALSE, FALSE)

\* the values the download method c may return for url
downloadResults(b, c, url) ==
    IF ~sends(b, c, IF refusesMP3(url) THEN "results" ELSE "video")
    THEN {unsent(b, c)}
    ELSE {answered(b, c, answer) : answer \in Answers} \cup {caught(b, c)}

\* res.json({...result, system, creator}), with a timestamp in builds 3, 5, 6
downloaded(b, result) == Reply(200, result.success, result.error, Some(result), FALSE, TRUE, b \in {3, 5, 6})

\* a request to one of these endpoints: where its handler is, what was
\* sent, the service methods the handler invoked, and what it sent back
Exchange(pc, route, header, url, invoked, http) ==
    [pc |-> pc, route |-> route, header |-> header, url |-> url, invoked |-> invoked, http |-> http]

NoExchange == Exchange("idle", "", undefined, null, <<>>, NoReply)

\* the download endpoint of route ("mp3" or "mp4") up to its await or its
\* response
downloadByUrl(b, route, url) ==
    IF acceptsUrl(b, url)
    THEN Exchange("awaiting", route, undefined, url, << [client |-> route, arg |-> url] >>, NoReply)
    ELSE Exchange("done", route, undefined, url, <<>>, urlRequired(b))

(***************************************************************************)
(* The server: one build running with one environment, and the requests    *)
(* to its chat endpoint                                                    *)
(***************************************************************************)
VARIABLES
    build,      \* which of the seven builds runs
    env,        \* process.env
    pc,         \* per request: "idle" (not sent), the await the handler is at, or "done"
    req,        \* per request: what the client sent
    intent,     \* per request: the handler's const intent ("" before it is set)
    response,   \* per request: the handler's let response
    local,      \* per request: the handler's other locals
    calls,      \* per request: the service calls made so far, in order
    random,     \* per request: the Math.random() results drawn so far, in order
    resp,       \* per request: what res.json sent
    svc,        \* a method of a service class called on its own: where it is, and what it returned
    ep          \* a request to the admin status endpoint or to a download endpoint

vars == <<build, env, pc, req, intent, response, local, calls, random, resp, svc, ep>>

\* the requests: one, or two of which the second is sent when the first was
\* answered (the handlers of two requests share no state)
Slots == {1, 2}

\* the message texts of two requests
PairTexts == { <<"w","h","o"," ","m","a","d","e"," ","y","o","u">>, <<"s","y","s","t","e","m"," ","s","t","a","t","u","s">>, <<"h","e","l","l","o">>,
    <<"D","o","w","n","l","o","a","d"," ","S","h","a","p","e"," ","o","f"," ","Y","o","u"," ","b","y"," ","E","d"," ","S","h","e","e","r","a","n">> }

NoRequest == [message |-> [kind |-> "undefined", chars |-> <<>>], voice |-> FALSE, adminHeader |-> undefined, audio |-> FALSE]

InitWith(pc0) ==
    /\ build \in Builds
    /\ env \in Environments
    /\ pc = pc0
    /\ req = [r \in Slots |-> NoRequest]
    /\ intent = [r \in Slots |-> ""]
    /\ response = [r \in Slots |-> NoBody]
    /\ local = [r \in Slots |-> NoLocals]
    /\ calls = [r \in Slots |-> <<>>]
    /\ random = [r \in Slots |-> <<>>]
    /\ resp = [r \in Slots |-> NotSent]
    /\ svc = NoService
    /\ ep = NoExchange

\* the server is up and one client is about to send a request
Init == InitWith([r \in Slots |-> IF r = 1 THEN "idle" ELSE "off"])

\* the server is up and two clients are about to send a request each
InitPair == InitWith([r \in Slots |-> "idle"])

\* the handler of build b up to its first await or its response
start(b, e, request, rnd) ==
    CASE b = 1 -> start1(request, rnd)
      [] b = 2 -> start2(request)
      [] b = 3 -> start3(request)
      [] b = 4 -> start4(request)
      [] b = 5 -> start5(request, e.ADMIN_TOKEN)
      [] b = 6 -> start6(request, e.ADMIN_TOKEN)
      [] b = 7 -> start7(request, rnd)

\* the handler of build b from the return of its chat service
afterChat(b, request, i, outcome, k) ==
    CASE b \in {1, 7} -> afterChat1(request, i, outcome)
      [] b = 2 -> afterChat2(request, i, outcome, k)
      [] b = 3 -> afterChat3(request, i, outcome, k)
      [] b = 4 -> afterChat4(i, outcome)
      [] b \in {5, 6} -> afterChat5(request, i, outcome, k)

\* OpenAIService.enhanceResponse of builds 2, 5, 6 returns null without a
\* request when OPENAI_API_KEY is not set
chatOutcomes(b, e) ==
    IF b \in {2, 5, 6} /\ ~e.OPENAI_API_KEY THEN {"not_configured"} ELSE ChatOutcomes

\* generateSpeech fails without a request when ELEVENLABS_API_KEY is not
\* set; VoiceService of build 5 has no such check, and its request carries
\* no key
speechOutcomes(b, e) ==
    IF b = 5 THEN (IF e.ELEVENLABS_API_KEY THEN SpeechOutcomes ELSE {"error"}) \ {"timeout"}
    ELSE IF e.ELEVENLABS_API_KEY THEN SpeechOutcomes
    ELSE {"not_configured"}

\* the Math.random() results the handler may draw before its first await:
\* builds 1 and 7 draw a genre and a mood for a music generation request
Draws(b, request) ==
    IF b \in {1, 7} /\ request.message.kind = "string" /\ test(reGeneration, request.message.chars)
    THEN Randoms \X Randoms
    ELSE {<<0, 0>>}

\* the messages the client of request r may send: the second of two
\* requests repeats the message of the first
messagesOf(r) ==
    IF r = 2 THEN {req[1].message}
    ELSE IF pc[2] = "off" THEN Messages
    ELSE { String(t) : t \in PairTexts }

\* the last call returns with outcome: it made a request unless the service
\* returned before making one
settle(cs, outcome) ==
    [cs EXCEPT ![Len(cs)] = [@ EXCEPT !.outcome = outcome, !.sent = outcome \notin {"not_configured", "refused"}]]

\* the Math.random() result the handler draws after its chat service
\* returned: builds 2, 3, 5, 6 draw one when it returned null
chatDraws(b, outcome) ==
    IF b \in {2, 3, 5, 6} /\ enhanceResponse(outcome) = Absent THEN Randoms ELSE {}

\* a handler that keeps its response in a variable of the module, one for
\* all requests: what the handlers must not do
ApplyShared(r, cs, drawn, step) ==
    /\ pc' = [pc EXCEPT ![r] = step.pc]
    /\ intent' = [intent EXCEPT ![r] = step.intent]
    /\ response' = [s \in Slots |-> step.response]
    /\ local' = [local EXCEPT ![r] = step.local]
    /\ calls' = [calls EXCEPT ![r] = cs \o step.call]
    /\ random' = [random EXCEPT ![r] = @ \o drawn]
    /\ resp' = [resp EXCEPT ![r] = step.http]
    /\ UNCHANGED <<build, env, svc, ep>>

\* the handler of request r ran up to step, after drawing the results drawn
Apply(r, cs, drawn, step) ==
    /\ pc' = [pc EXCEPT ![r] = step.pc]
    /\ intent' = [intent EXCEPT ![r] = step.intent]
    /\ response' = [response EXCEPT ![r] = step.response]
    /\ local' = [local EXCEPT ![r] = step.local]
    /\ calls' = [calls EXCEPT ![r] = cs \o step.call]
    /\ random' = [random EXCEPT ![r] = @ \o drawn]
    /\ resp' = [resp EXCEPT ![r] = step.http]
    /\ UNCHANGED <<build, env, svc, ep>>

\* a request arrives and its handler runs to its first await or its response
Receive(r) ==
    /\ pc[r] = "idle"
    /\ r = 2 => pc[1] = "done"
    /\ \E request \in Requests(build, messagesOf(r)) :
         \E rnd \in Draws(build, request) :
            /\ req' = [req EXCEPT ![r] = request]
            /\ Apply(r, <<>>, IF Draws(build, request) = {<<0, 0>>} THEN <<>> ELSE rnd, start(build, env, request, rnd))

\* the chat service returns and the handler runs on
ChatReturns(r) ==
    /\ pc[r] = "chat"
    /\ \E outcome \in chatOutcomes(build, env) :
         \/ /\ chatDraws(build, outcome) = {}
            /\ Apply(r, settle(calls[r], outcome), <<>>, afterChat(build, req[r], intent[r], outcome, 0))
         \/ \E k \in chatDraws(build, outcome) :
               Apply(r, settle(calls[r], outcome), <<k>>, afterChat(build, req[r], intent[r], outcome, k))
    /\ UNCHANGED req

\* searchSong returns and the handler runs on
SearchReturns(r) ==
    /\ pc[r] = "search"
    /\ \E outcome \in SearchOutcomes :
         Apply(r, settle(calls[r], outcome), <<>>,
               IF build = 4 THEN afterSearch4(intent[r], local[r], outcome)
               ELSE afterSearch7(req[r], intent[r], local[r], outcome))
    /\ UNCHANGED req

\* downloadMP3 or downloadMP4 returns and the handler runs on
DownloadReturns(r) ==
    /\ pc[r] = "download"
    /\ LET client == calls[r][Len(calls[r])].client IN
       \E outcome \in downloadOutcomes4(client, local[r].url) :
         Apply(r, settle(calls[r], outcome), <<>>, afterDownload4(intent[r], local[r], client, outcome))
    /\ UNCHANGED req

\* generateSpeech returns and the handler sends its response
SpeechReturns(r) ==
    /\ pc[r] = "tts"
    /\ \E outcome \in speechOutcomes(build, env) :
         Apply(r, settle(calls[r], outcome), <<>>,
               IF build \in {1, 7} THEN afterSpeech1(intent[r], response[r], outcome)
               ELSE afterSpeech2(build, intent[r], response[r], outcome))
    /\ UNCHANGED req

Next ==
    \E r \in Slots :
        \/ Receive(r)
        \/ ChatReturns(r)
        \/ SearchReturns(r)
        \/ DownloadReturns(r)
        \/ SpeechReturns(r)

Spec == Init /\ [][Next]_vars

SpecPair == InitPair /\ [][Next]_vars

\* the message texts of two requests in flight together
ConcurrentTexts == { <<"h","e","l","l","o">>,
    <<"D","o","w","n","l","o","a","d"," ","S","h","a","p","e"," ","o","f"," ","Y","o","u"," ","b","y"," ","E","d"," ","S","h","e","e","r","a","n">> }

\* a request without admin header or audio arrives, whatever the other
\* request is doing, and its handler runs to its first await or its response
Arrive(r) ==
    /\ pc[r] = "idle"
    /\ \E request \in { q \in Requests(build, { String(t) : t \in ConcurrentTexts }) : q.adminHeader = undefined /\ ~q.audio } :
         \E rnd \in Draws(build, request) :
            /\ req' = [req EXCEPT ![r] = request]
            /\ Apply(r, <<>>, IF Draws(build, request) = {<<0, 0>>} THEN <<>> ELSE rnd, start(build, env, request, rnd))

\* the event loop runs the handlers of the two requests in any order, one
\* stretch between awaits at a time
NextConcurrent ==
    \E r \in Slots :
        \/ Arrive(r)
        \/ ChatReturns(r)
        \/ SearchReturns(r)
        \/ DownloadReturns(r)
        \/ SpeechReturns(r)

SpecConcurrent == InitPair /\ [][NextConcurrent]_vars

\* axios settles every request it sent with a timeout: with the answer, or
\* with a rejection when the timeout passes; a call that sends no request
\* returns at once
Fairness ==
    \A r \in Slots :
        /\ WF_vars(hasTimeout(build, "chat") /\ ChatReturns(r))
        /\ WF_vars(hasTimeout(build, "search") /\ SearchReturns(r))
        /\ WF_vars(hasTimeout(build, "mp3") /\ DownloadReturns(r))
        /\ WF_vars(hasTimeout(build, "tts") /\ SpeechReturns(r))

SpecLive == Init /\ [][Next]_vars /\ Fairness

(***************************************************************************)
(* The methods of the service classes, each called on its own              *)
(***************************************************************************)
\* the server is up and no request is sent to its chat endpoint
InitClients == InitWith([r \in Slots |-> "off"])

\* a method is called and runs to its await, or returns without one
Invoke ==
    /\ svc.pc = "idle"
    /\ \E c \in ClientsOf(build) :
         \E arg \in argsOf(c) :
            svc' = IF (checksKey(build, c) /\ ~configured(build, c, env)) \/ ~sends(build, c, arg)
                   THEN [pc |-> "done", client |-> c, arg |-> arg, called |-> FALSE, answer |-> "", result |-> unsent(build, c)]
                   ELSE [pc |-> "waiting", client |-> c, arg |-> arg, called |-> TRUE, answer |-> "", result |-> Null]
    /\ UNCHANGED <<build, env, pc, req, intent, response, local, calls, random, resp, ep>>

\* the backend answers and the method returns
Answer ==
    /\ svc.pc = "waiting"
    /\ \E answer \in Answers :
         svc' = [svc EXCEPT !.pc = "done", !.answer = answer, !.result = answered(build, svc.client, answer)]
    /\ UNCHANGED <<build, env, pc, req, intent, response, local, calls, random, resp, ep>>

\* the timeout of the request passes, axios rejects and the catch block
\* of the method returns
TimesOut ==
    /\ svc.pc = "waiting"
    /\ hasTimeout(build, svc.client)
    /\ svc' = [svc EXCEPT !.pc = "done", !.answer = "timeout", !.result = caught(build, svc.client)]
    /\ UNCHANGED <<build, env, pc, req, intent, response, local, calls, random, resp, ep>>

NextClients == Invoke \/ Answer \/ TimesOut

SpecClients == InitClients /\ [][NextClients]_vars

(***************************************************************************)
(* The admin status endpoint and the download endpoints                    *)
(***************************************************************************)
\* the handler of app.post('/api/admin/status')
AdminStatus ==
    /\ ep.pc = "idle"
    /\ build \in AdminBuilds
    /\ \E header \in AdminHeaders :
         ep' = Exchange("done", "admin", header, null, <<>>, adminStatus(build, header, env.ADMIN_TOKEN))
    /\ UNCHANGED <<build, env, pc, req, intent, response, local, calls, random, resp, svc>>

\* a download endpoint receives a request and runs to its await or its
\* response
DownloadByUrl ==
    /\ ep.pc = "idle"
    /\ \E route \in {"mp3", "mp4"} :
         \E url \in Urls :
            ep' = downloadByUrl(build, route, url)
    /\ UNCHANGED <<build, env, pc, req, intent, response, local, calls, random, resp, svc>>

\* the download method returns and the endpoint sends its result
DownloadSettles ==
    /\ ep.pc = "awaiting"
    /\ \E result \in downloadResults(build, ep.route, ep.url) :
         ep' = [ep EXCEPT !.pc = "done", !.http = downloaded(build, result)]
    /\ UNCHANGED <<build, env, pc, req, intent, response, local, calls, random, resp, svc>>

NextEndpoints == AdminStatus \/ DownloadByUrl \/ DownloadSettles

SpecEndpoints == InitClients /\ [][NextEndpoints]_vars

(***************************************************************************)
(* Properties of the chat endpoint                                         *)
(***************************************************************************)
\* request r was sent
Sent(r) == pc[r] \notin {"idle", "off"}

\* the handler of request r has sent its response
Done(r) == pc[r] = "done"

\* request r carries a text message and no audio
Typed(r) == req[r].message.kind = "string" /\ ~req[r].audio

\* the response of request r has a body under `response`
HasBody(r) == resp[r].response # Absent

TheBody(r) == resp[r].response[1]

\* the types and messages of the identity response
IdentityTypes == {"identity", "identity_response"}
IdentityMessages == {identityMessage1, identityMessage2, identityMessage3, identityMessage5}

\* the message matches an identity pattern of build b
matchesIdentity(b, message) ==
    IF b \in {1, 4, 7} THEN test(reIdentity, message.chars) ELSE checkIdentityQuestions(b, message)

\* the identity question of the specification's example
WhoCreatedYou ==
    << "w", "h", "o", " ", "c", "r", "e", "a", "t", "e", "d", " ", "y", "o", "u", ",", " ", "c", "a", "n", " ", "y", "o", "u", " ", "a", "l", "s", "o", " ", "d", "o", "w", "n", "l", "o", "a", "d", " ", "t", "h", "i", "s", " ", "s", "o", "n", "g" >>

\* C1: a text that matches an identity pattern gets the fixed identity
\* message with an identity type, whatever else it asks for, and so does the
\* text "who created you, can you also download this song"
C1_IdentityWins ==
    \A r \in Slots :
        (/\ Done(r)
         /\ Typed(r)
         /\ \/ matchesIdentity(build, req[r].message)
            \/ req[r].message.chars = WhoCreatedYou) =>
            /\ HasBody(r)
            /\ TheBody(r).type \in IdentityTypes
            /\ TheBody(r).message \in IdentityMessages

\* the tags of the download intents
DownloadIntents == {"download", "media_download", "song_download", "video_download", "url_download"}

\* C2: an empty or whitespace-only text gets the 'Message is required' body;
\* no service is called and the classifier is not reached
C2_BlankTextRejected ==
    \A r \in Slots :
        (Sent(r) /\ Typed(r) /\ trim(req[r].message.chars) = <<>>) =>
            /\ Done(r)
            /\ calls[r] = <<>>
            /\ intent[r] = ""
            /\ resp[r].error = Some("Message is required")

\* the response types of the download branches
DownloadTypes ==
    {"download", "media_download", "url_download_ready", "video_download", "video_download_help",
     "video_download_ready", "song_request_unclear", "song_found", "song_not_found",
     "auto_download", "download_failed"}

\* C3: a download intent whose extractor finds nothing is answered by its
\* own branch without any service call; the chat service is never called
\* for a download intent
C3_NoFallThrough ==
    \A r \in Slots :
        intent[r] \in DownloadIntents =>
            /\ \A i \in 1..Len(calls[r]) : calls[r][i].client # "chat"
            /\ (Done(r) /\ calls[r] = <<>>) => (HasBody(r) /\ TheBody(r).type \in DownloadTypes)

\* C4: a request with a non-empty text ends, whatever the services answer,
\* in a body with a type and a message, never in the reply of the catch block
C4_NeverSystemError ==
    \A r \in Slots :
        (Done(r) /\ Typed(r) /\ req[r].message.chars # <<>>) =>
            /\ resp[r].status = 200
            /\ resp[r].error = Absent
            /\ HasBody(r)
            /\ TheBody(r).type # ""
            /\ TheBody(r).message.tpl # ""

\* the tags of the general intent
GeneralIntents == {"general", "general_conversation"}

\* texts none of the classification rules matches
PlainTexts == { <<>>, <<" ">>, <<" "," "," ">>, <<"h","e","l","l","o">> }

\* C5: classify returns an intent for every string and throws for none, and
\* it returns the general intent for a string no rule matches
C5_ClassifyTotal ==
    \A r \in Slots :
        (Sent(r) /\ Typed(r)) =>
            LET tag == classify(build, req[r].message, req[r].adminHeader, env.ADMIN_TOKEN) IN
            /\ tag \notin Thrown
            /\ req[r].message.chars \in PlainTexts => tag \in GeneralIntents

\* requests 1 and 2 carry the same text and their handlers ran
SameText ==
    /\ Sent(1) /\ Sent(2)
    /\ Typed(1) /\ Typed(2)
    /\ req[1].message = req[2].message

\* the x-admin-token header of request r is the configured admin token
authorised(r) == req[r].adminHeader = env.ADMIN_TOKEN

elements(list) == { list[i] : i \in 1..Len(list) }

\* the sentences build b answers with when its chat service returned null
FallbackSentences(b) ==
    CASE b \in {1, 4, 7} -> {fallbackMessage1}
      [] b = 2 -> elements(fallbacks2)
      [] b = 3 -> elements(generalResponses3)
      [] b \in {5, 6} -> elements(generalResponses5)

\* the chat service of build b returns null for this outcome
returnsNull(b, outcome) ==
    IF b \in {1, 4, 7} THEN getAIResponse(outcome) = Absent ELSE enhanceResponse(outcome) = Absent

\* the chat service called for request r returned null
ChatFailed(r) ==
    \E i \in 1..Len(calls[r]) :
        /\ calls[r][i].client = "chat"
        /\ calls[r][i].outcome # "pending"
        /\ returnsNull(build, calls[r][i].outcome)

\* C7: when the text is classified as general and the chat service returns
\* null, the message of the response is one of the fallback sentences of the
\* build and the envelope says success: true
C7_FallbackSentence ==
    \A r \in Slots :
        (Done(r) /\ intent[r] \in GeneralIntents /\ ChatFailed(r)) =>
            /\ resp[r].status = 200
            /\ resp[r].success = Some(TRUE)
            /\ HasBody(r)
            /\ TheBody(r).message \in FallbackSentences(build)

\* the chat service timed out and the handler drew the last of the four
\* fallback sentences
C7_Witness ==
    /\ build = 5
    /\ Done(1)
    /\ intent[1] = "general_conversation"
    /\ ChatFailed(1)
    /\ calls[1][1].outcome = "timeout"
    /\ random[1] = <<RandomSteps - 1>>
    /\ TheBody(1).message = generalResponses5[4]

\* the calls other than those of the speech service
nonSpeech(cs) == SelectSeq(cs, LAMBDA c : c.client # "tts")

\* the speech service called for request r returned audio, or failed
Spoke(r) == \E i \in 1..Len(calls[r]) : calls[r][i].client = "tts" /\ calls[r][i].outcome = "audio"
SpeechFailed(r) == \E i \in 1..Len(calls[r]) : calls[r][i].client = "tts" /\ calls[r][i].outcome \notin {"pending", "audio"}

\* the body carries audio
hasAudio(body) == body.voice # Absent \/ body.voice_audio # Absent

\* what was sent, without the audio fields, and without voice_enabled
withoutAudio(http) ==
    IF http.response = Absent THEN http
    ELSE [http EXCEPT !.response = Some([http.response[1] EXCEPT !.voice = Absent, !.voice_audio = Absent])]
withoutEcho(http) ==
    IF http.response = Absent THEN http
    ELSE [http EXCEPT !.response = Some([http.response[1] EXCEPT !.voice_enabled = Absent])]

\* requests 1 and 2 are the same request without and with voice, their
\* other services answered alike and their random draws were the same
VoicePair ==
    /\ Done(1) /\ Done(2)
    /\ ~req[1].voice /\ req[2].voice
    /\ req[2] = [req[1] EXCEPT !.voice = TRUE]
    /\ nonSpeech(calls[1]) = nonSpeech(calls[2])
    /\ random[1] = random[2]

\* audio is attached only when the speech service returned it, and a request
\* whose speech service failed is answered without audio and with success
AudioOnlyWhenSpoken ==
    \A r \in Slots :
        /\ (Done(r) /\ HasBody(r) /\ hasAudio(TheBody(r))) => Spoke(r)
        /\ (Done(r) /\ SpeechFailed(r)) =>
              (HasBody(r) /\ ~hasAudio(TheBody(r)) /\ resp[r].success = Some(TRUE))

\* C8 as stated: the body with voice is the body without voice plus the
\* audio fields, which are there only when the speech service succeeded
C8_OnlyAudioAdded ==
    /\ VoicePair => withoutAudio(resp[2]) = resp[1]
    /\ AudioOnlyWhenSpoken

\* C8: the body with voice differs from the body without voice only by the
\* audio fields and by the voice_enabled field that echoes the flag; type,
\* message and the other fields are the same, audio is there only when the
\* speech service succeeded, and when it failed the request still succeeds
C8_AudioAndEchoOnly ==
    /\ VoicePair => withoutEcho(withoutAudio(resp[2])) = withoutEcho(resp[1])
    /\ AudioOnlyWhenSpoken

\* the fallback body of build 6 was sent without voice and, with voice, with
\* audio and the echoed flag
C8_Witness ==
    /\ build = 6
    /\ VoicePair
    /\ HasBody(1) /\ HasBody(2)
    /\ TheBody(1).voice_enabled = Some(FALSE)
    /\ TheBody(2).voice_enabled = Some(TRUE)
    /\ TheBody(2).voice_audio # Absent
    /\ TheBody(2).message = TheBody(1).message

\* the text holds one of the tokens
hasToken(text, tokens) == \E t \in tokens : includes(toLowerCase(text), t)

\* the format rule of the specification: MP4 for a video or mp4 token and
\* no audio or mp3 token
wantsMP4(text) ==
    /\ hasToken(text, { <<"m","p","4">>, <<"v","i","d","e","o">> })
    /\ ~hasToken(text, { <<"m","p","3">>, <<"a","u","d","i","o">> })

\* C9: a download branch resolves the format MP4 exactly when the text
\* holds a video or mp4 token and no audio or mp3 token, and MP3 otherwise
C9_FormatRule ==
    \A r \in Slots :
        (Done(r) /\ Typed(r) /\ HasBody(r) /\ TheBody(r).format # Absent) =>
            /\ TheBody(r).format[1] \in {"mp4", "MP4", "mp3", "MP3"}
            /\ TheBody(r).format[1] \in {"mp4", "MP4"} <=> wantsMP4(req[r].message.chars)

\* messages of the form "Download <title> by <artist>", and their queries
DownloadBy ==
    { [text |-> <<"D","o","w","n","l","o","a","d"," ","S","h","a","p","e"," ","o","f"," ","Y","o","u"," ","b","y"," ","E","d"," ","S","h","e","e","r","a","n">>, query |-> <<"S","h","a","p","e"," ","o","f"," ","Y","o","u"," ","b","y"," ","E","d"," ","S","h","e","e","r","a","n">>],
      [text |-> <<"D","o","w","n","l","o","a","d"," ","T","o","g","e","t","h","e","r"," ","b","y"," ","S","i","a">>, query |-> <<"T","o","g","e","t","h","e","r"," ","b","y"," ","S","i","a">>] }

\* the response types of the song download branch
SongDownloadTypes == {"song_download", "song_found", "song_not_found", "auto_download", "download_failed"}

\* C10: "Download <title> by <artist>" is classified as song_download, the
\* song searched for is "<title> by <artist>", the download is an MP3 and
\* the response type is one of the song download branch
C10_DownloadTitleByArtist ==
    \A r \in Slots : \A d \in DownloadBy :
        (Sent(r) /\ Typed(r) /\ req[r].message.chars = d.text) =>
            /\ intent[r] = "song_download"
            /\ calls[r] # <<>>
            /\ calls[r][1].client = "search"
            /\ calls[r][1].arg = Raw(d.query)
            /\ \A i \in 1..Len(calls[r]) : calls[r][i].client # "mp4"
            /\ Done(r) =>
                  /\ HasBody(r)
                  /\ TheBody(r).type \in SongDownloadTypes
                  /\ TheBody(r).format \in {Absent, Some("MP3")}

\* C11: when the identity guard matches, the classifier goes no further
\* than its identity rule, the only call made is one text-to-speech call of
\* the identity message, made only when voice is requested, and the response
\* has the identity type and the identity message
C11_IdentityShortCircuit ==
    \A r \in Slots :
        (Sent(r) /\ Typed(r) /\ matchesIdentity(build, req[r].message)) =>
            /\ intent[r] \in {"", "identity"}
            /\ Len(calls[r]) <= 1
            /\ \A i \in 1..Len(calls[r]) :
                  /\ calls[r][i].client = "tts"
                  /\ calls[r][i].arg \in IdentityMessages
                  /\ req[r].voice
            /\ Done(r) =>
                  /\ HasBody(r)
                  /\ TheBody(r).type \in IdentityTypes
                  /\ TheBody(r).message \in IdentityMessages

\* "who made you" with voice was answered by the identity rule of build 2
\* after one text-to-speech call
C11_Witness ==
    /\ build = 2
    /\ Done(1)
    /\ req[1].message.chars = <<"w","h","o"," ","m","a","d","e"," ","y","o","u">>
    /\ req[1].voice
    /\ Len(calls[1]) = 1
    /\ calls[1][1].client = "tts"
    /\ TheBody(1).type = "identity_response"
    /\ TheBody(1).message = identityMessage2


\* a method of a service class was called, and returned
Called(c) == svc.pc # "idle" /\ svc.client = c
Returned(c) == svc.pc = "done" /\ svc.client = c

\* C12: a method whose capability is not configured sends no request and
\* returns an object with success false
C12_DisabledWhenNotConfigured ==
    \A c \in ClientsOf(build) :
        (Called(c) /\ ~configured(build, c, env)) =>
            /\ ~svc.called
            /\ Returned(c) => svc.result.success = Some(FALSE)

\* C13: whatever its backend answers, a method of a service class returns
\* an object with a boolean success, carrying a payload when success is
\* true and an error message when it is false
C13_UniformShape ==
    \A c \in ClientsOf(build) :
        (Returned(c) /\ svc.called) =>
            /\ svc.result.kind = "object"
            /\ svc.result.success \in {Some(TRUE), Some(FALSE)}
            /\ svc.result.success = Some(TRUE) => svc.result.payload # "none"
            /\ svc.result.success = Some(FALSE) => svc.result.error # Absent

\* two outcomes of a call that differ at most in the text of the error or in
\* the payload the method does not recognise
sameButDetail(o1, o2) ==
    \/ o1 = o2
    \/ {o1, o2} \subseteq {"error", "timeout"}
    \/ {o1, o2} \subseteq {"payload", "payload2"}

\* two requests that are the same request, whose handlers drew the same
\* random numbers and made the same calls, answered alike up to raw detail
SameRunButDetail ==
    /\ Done(1) /\ Done(2)
    /\ req[1] = req[2]
    /\ random[1] = random[2]
    /\ Len(calls[1]) = Len(calls[2])
    /\ \A i \in 1..Len(calls[1]) :
          /\ calls[1][i].client = calls[2][i].client
          /\ sameButDetail(calls[1][i].outcome, calls[2][i].outcome)

\* C14: two runs of one request that differ only in the text of an upstream
\* error or in an unrecognised upstream payload send the same response
C14_DetailBlind == SameRunButDetail => resp[1] = resp[2]

\* the calls of request r that sent a request to a backend
Outbound(r) == {i \in 1..Len(calls[r]) : calls[r][i].sent}
Spoken(r) == {i \in Outbound(r) : calls[r][i].client = "tts"}
Capability(r) == Outbound(r) \ Spoken(r)

\* at most one text-to-speech call, and only when voice is requested
SpeaksOnRequest(r) == Cardinality(Spoken(r)) <= 1 /\ (Spoken(r) # {} => req[r].voice)

\* C15 as stated: at most two outbound calls, of which at most one
\* capability call and at most one text-to-speech call, the latter only when
\* voice is requested
C15_OneCapabilityCall ==
    \A r \in Slots :
        Sent(r) => (Cardinality(Outbound(r)) <= 2 /\ Cardinality(Capability(r)) <= 1 /\ SpeaksOnRequest(r))

\* C15: at most two outbound calls, of which at most one text-to-speech call
\* made only when voice is requested; two capability calls are a search
\* followed by the download of what it found
C15_AtMostTwoCalls ==
    \A r \in Slots :
        Sent(r) =>
            /\ Cardinality(Outbound(r)) <= 2
            /\ SpeaksOnRequest(r)
            /\ Cardinality(Capability(r)) = 2 =>
                  (calls[r][1].client = "search" /\ calls[r][2].client \in {"mp3", "mp4"})
C15_Witness == build = 4 /\ Done(1) /\ Len(calls[1]) = 2 /\ Outbound(1) = {1, 2} /\ calls[1][1].client = "search" /\ calls[1][2].client = "mp3" /\ HasBody(1) /\ TheBody(1).type = "auto_download"

Own(r) == <<pc[r], req[r], intent[r], response[r], local[r], calls[r], random[r], resp[r]>>

\* a step of the handler of one request leaves the other request, and the
\* configuration, as they are
OwnStep ==
    /\ \A r \in Slots : Own(r)' # Own(r) => \A s \in Slots \ {r} : Own(s)' = Own(s)
    /\ build' = build /\ env' = env

\* requests that sent the same, drew the same and were answered the same by
\* their services got the same response
OwnResponse ==
    (Done(1) /\ Done(2) /\ req[1] = req[2] /\ calls[1] = calls[2] /\ random[1] = random[2]) => resp[1] = resp[2]

AdminAnswered == ep.pc = "done" /\ ep.route = "admin"

\* C18: the admin status endpoint sends the snapshot only for a request
\* whose x-admin-token header is there and equals the configured token, and
\* the unauthorized response for every other request
C18_SnapshotNeedsToken ==
    AdminAnswered =>
        IF ep.header # undefined /\ env.ADMIN_TOKEN # undefined /\ ep.header = env.ADMIN_TOKEN
        THEN ep.http.snapshot
        ELSE ~ep.http.snapshot /\ ep.http.error = Some("Unauthorized")

\* a request to a download endpoint was answered
DownloadAnswered == ep.pc = "done" /\ ep.route \in {"mp3", "mp4"}

\* the url names youtube.com or youtu.be
isYouTubeUrl(url) == includes(url, <<"y","o","u","t","u","b","e",".","c","o","m">>) \/ includes(url, <<"y","o","u","t","u",".","b","e">>)

\* C19: a download endpoint given a YouTube URL invokes its download method
\* once, with that URL, and sends the result of the method; given no URL it
\* sends an input error and invokes nothing
C19_DownloadByUrl ==
    DownloadAnswered =>
        /\ isYouTubeUrl(ep.url) =>
              /\ ep.invoked = << [client |-> ep.route, arg |-> ep.url] >>
              /\ ep.http.result # Absent
              /\ ep.http.success = ep.http.result[1].success
        /\ ep.url = null => (ep.invoked = <<>> /\ ep.http.result = Absent /\ ep.http.error # Absent)

\* C20: every response of the chat endpoint carries a success flag, the
\* system tag, the creator tag and a timestamp
C20_Envelope ==
    \A r \in Slots :
        Done(r) => (resp[r].success # Absent /\ resp[r].system /\ resp[r].creator /\ resp[r].timestamp)

(***************************************************************************)
(* The intent rules on their own: a text arrives and the classifier of    *)
(* the build runs on it.                                                   *)
(***************************************************************************)

\* the verbs and the nouns of the generation rule
GenerationVerbs == << <<"c","r","e","a","t","e">>, <<"m","a","k","e">>, <<"g","e","n","e","r","a","t","e">>, <<"c","o","m","p","o","s","e">> >>

GenerationNouns == << <<"m","u","s","i","c">>, <<"s","o","n","g">>, <<"t","r","a","c","k">> >>

\* "<verb> a <noun>", the k-th pairing of a generation verb and a noun
pairing(k) ==
    GenerationVerbs[((k - 1) \div 3) + 1] \o <<" ","a"," ">> \o GenerationNouns[((k - 1) % 3) + 1]

\* the texts the classifier is run on
ClassifierTexts ==
    { pairing(k) : k \in 1..(Len(GenerationVerbs) * Len(GenerationNouns)) } \cup
    { <<"t","e","l","l"," ","m","e"," ","a","n","y","t","h","i","n","g">>,
      <<"d","o","w","n","l","o","a","d"," ","t","h","i","s"," ","s","o","n","g">>,
      <<"f","i","n","d"," ","t","h","i","s"," ","s","o","n","g">>,
      <<"f","e","t","c","h"," ","t","h","i","s"," ","t","r","a","c","k">>,
      <<"s","a","v","e"," ","t","h","i","s"," ","v","i","d","e","o">>,
      <<"c","o","n","v","e","r","t"," ","i","t"," ","t","o"," ","m","p","3">>,
      <<"w","a","t","c","h"," ","h","t","t","p","s",":","/","/","y","o","u","t","u",".","b","e","/","x">>,
      <<"d","o","w","n","l","o","a","d"," ","a","n","d"," ","t","e","l","l"," ","m","e"," ","w","h","a","t"," ","s","o","n","g"," ","i","s"," ","t","h","i","s">>,
      <<"h","e","l","p"," ","m","e"," ","d","o","w","n","l","o","a","d"," ","t","h","i","s"," ","v","i","d","e","o">>,
      <<"g","e","t"," ","m","e"," ","m","u","s","i","c",","," ","c","r","e","a","t","e"," ","m","u","s","i","c">>,
      <<"c","r","e","a","t","e"," ","m","u","s","i","c">>,
      <<"g","e","n","e","r","a","t","e"," ","m","u","s","i","c">>,
      <<"w","h","a","t"," ","s","o","n","g"," ","i","s"," ","t","h","i","s">>,
      <<"w","h","o"," ","m","a","d","e"," ","y","o","u">>,
      <<"h","e","l","p">>,
      <<"h","e","l","l","o">> }

\* a text arrives and IntentClassifier.classify runs on it
Classify ==
    /\ pc[1] = "idle"
    /\ \E text \in ClassifierTexts :
         /\ req' = [req EXCEPT ![1] = [NoRequest EXCEPT !.message = String(text)]]
         /\ intent' = [intent EXCEPT ![1] = classify(build, String(text), undefined, env.ADMIN_TOKEN)]
    /\ pc' = [pc EXCEPT ![1] = "classified"]
    /\ UNCHANGED <<build, env, response, local, calls, random, resp, svc, ep>>

NextClassifier == Classify

SpecClassifier == Init /\ [][NextClassifier]_vars

\* the classifier ran on the text of request r, which the identity guard
\* let through
Classified(r) == pc[r] = "classified" /\ ~matchesIdentity(build, req[r].message)

\* (download|convert|get|save|fetch|find).*(youtube|video|audio|mp3|mp4|song|music|track)
reVerbThenMediaNoun ==
    { << {<<"d","o","w","n","l","o","a","d">>, <<"c","o","n","v","e","r","t">>, <<"g","e","t">>, <<"s","a","v","e">>, <<"f","e","t","c","h">>, <<"f","i","n","d">>},
         {<<"y","o","u","t","u","b","e">>, <<"v","i","d","e","o">>, <<"a","u","d","i","o">>, <<"m","p","3">>, <<"m","p","4">>, <<"s","o","n","g">>, <<"m","u","s","i","c">>, <<"t","r","a","c","k">>} >> }

\* a YouTube host name
reYouTubeHost == { << {<<"y","o","u","t","u","b","e",".","c","o","m">>, <<"y","o","u","t","u",".","b","e">>} >> }

\* C21: a text that the identity guard lets through is classified as a
\* download intent exactly when a verb among download, convert, get, save,
\* fetch, find is followed by a media noun among youtube, video, audio, mp3,
\* mp4, song, music, track, or the text holds a YouTube host name; a text
\* with neither, such as one with "yt" inside a word, is no download
C21_DownloadRule ==
    \A r \in Slots :
        Classified(r) =>
            (intent[r] \in DownloadIntents <=>
                (test(reVerbThenMediaNoun, req[r].message.chars) \/ test(reYouTubeHost, req[r].message.chars)))

\* the text of the example of the rule order
DownloadThisSong == <<"d","o","w","n","l","o","a","d"," ","t","h","i","s"," ","s","o","n","g">>

\* the text matches a recognition, generation or help pattern of build b
matchesLaterRule(b, text) ==
    \/ test(reRecognition, text)
    \/ b \notin {1, 4} /\ test(reUploadRecord, text)
    \/ b # 4 /\ test(reGeneration, text)
    \/ b \in {2, 3, 5, 6} /\ test(reNewSong \cup reHowTo, text)
    \/ test(reHelp, text)

\* C22: the download rule is tried first: a text with a download verb
\* followed by a media noun, or with a YouTube host name, that also matches
\* a recognition, generation or help pattern is classified as a download
\* intent, and so is "download this song"
C22_DownloadFirst ==
    \A r \in Slots :
        (/\ Classified(r)
         /\ \/ req[r].message.chars = DownloadThisSong
            \/ /\ test(reVerbThenMediaNoun, req[r].message.chars) \/ test(reYouTubeHost, req[r].message.chars)
               /\ matchesLaterRule(build, req[r].message.chars)) =>
            intent[r] \in DownloadIntents

\* (create|make|generate|compose).*(music|song|track)
reVerbThenMusicNoun ==
    { << {<<"c","r","e","a","t","e">>, <<"m","a","k","e">>, <<"g","e","n","e","r","a","t","e">>, <<"c","o","m","p","o","s","e">>}, {<<"m","u","s","i","c">>, <<"s","o","n","g">>, <<"t","r","a","c","k">>} >> }

\* C23: a text that matches neither the identity guard, the download rule
\* nor the recognition rule is classified as music generation whenever one
\* of create, make, generate, compose is combined in it with one of music,
\* song, track, whichever the pairing
C23_EveryPairingGenerates ==
    \A r \in Slots :
        (/\ Classified(r)
         /\ intent[r] \notin DownloadIntents
         /\ ~test(reVerbThenMediaNoun, req[r].message.chars)
         /\ ~test(reYouTubeHost, req[r].message.chars)
         /\ ~test(reRecognition \cup reUploadRecord, req[r].message.chars)
         /\ test(reVerbThenMusicNoun, req[r].message.chars)) =>
            intent[r] = "music_generation"

\* C24: the text-to-speech call of a request is its last call: it is issued
\* after every other call of the request has returned and the response body
\* is composed, and the text it carries is the message of that body, which
\* is the message that is sent
C24_SpeechAfterCompose ==
    \A r \in Slots :
        \A i \in 1..Len(calls[r]) :
            calls[r][i].client = "tts" =>
                /\ i = Len(calls[r])
                /\ \A j \in 1..(i - 1) : calls[r][j].outcome # "pending"
                /\ pc[r] = "tts" => (response[r] # NoBody /\ calls[r][i].arg = response[r].message)
                /\ (Done(r) /\ HasBody(r)) => calls[r][i].arg = TheBody(r).message

\* the chat backend of build 7 replied, the reply was spoken and sent
C24_Witness ==
    /\ build = 7
    /\ Done(1)
    /\ Len(calls[1]) = 2
    /\ calls[1][1].client = "chat" /\ calls[1][1].outcome = "reply"
    /\ calls[1][2].client = "tts" /\ calls[1][2].outcome = "audio"
    /\ HasBody(1)
    /\ calls[1][2].arg = TheBody(1).message

\* the outcomes of a call that failed
FailedOutcomes == {"empty", "error", "timeout", "none", "nolink", "not_configured", "refused"}

\* a capability call of request r failed
CapabilityFailed(r) ==
    \E i \in 1..Len(calls[r]) : calls[r][i].client # "tts" /\ calls[r][i].outcome \in FailedOutcomes

\* C25: there are no retries: no client is called twice for one request,
\* after a failure or otherwise, and a request one of whose capability calls
\* failed is answered by one response body, sent with success true
C25_NoRetry ==
    \A r \in Slots :
        /\ \A i, j \in 1..Len(calls[r]) :
              (i < j /\ calls[r][i].outcome \in FailedOutcomes) => calls[r][j].client # calls[r][i].client
        /\ (Done(r) /\ CapabilityFailed(r)) =>
              /\ resp[r].status = 200
              /\ resp[r].success = Some(TRUE)
              /\ HasBody(r)

\* the MP3 download of build 4 failed after the search and the handler
\* answered "download failed"
C25_Witness ==
    /\ build = 4
    /\ Done(1)
    /\ Len(calls[1]) = 2
    /\ calls[1][1].client = "search"
    /\ calls[1][2].client = "mp3" /\ calls[1][2].outcome = "error"
    /\ HasBody(1)
    /\ TheBody(1).type = "download_failed"

\* the handler of build b calls SpeechToTextService.convertAudioToText for
\* this request: audio_data and audio_type are there
transcribes(b, request) == b = 7 /\ request.audio

\* C26: the transcription is called only for a request with an audio
\* payload and no text, and a request that carries a text has that text
\* classified and answered, not the transcription
C26_TranscriptionOnlyWithoutText ==
    \A r \in Slots :
        Sent(r) =>
            /\ transcribes(build, req[r]) => (req[r].audio /\ ~truthy(req[r].message))
            /\ (build = 7 /\ truthy(req[r].message)) => finalMessage7(req[r]) = req[r].message

\* a call of request r to the song search
Searched(r) == \E i \in 1..Len(calls[r]) : calls[r][i].client = "search"

\* C27: when a text classified as a download intent holds an http:// or
\* https:// token, the response carries the first such token as its url and
\* the handler runs no song search
C27_UrlBeforeSearch ==
    \A r \in Slots :
        (/\ Sent(r)
         /\ Typed(r)
         /\ intent[r] \in DownloadIntents
         /\ urlMatch(req[r].message.chars) # null) =>
            /\ ~Searched(r)
            /\ Done(r) => (HasBody(r) /\ TheBody(r).url = Some(urlMatch(req[r].message.chars)))

(***************************************************************************)
(* The song download endpoints: /api/download/auto of build 4 and          *)
(* /api/download/song of build 7                                           *)
(***************************************************************************)
SongBuilds == {4, 7}

\* req.body.song: not there, or a song name
Songs == {null, <<"T","o","g","e","t","h","e","r"," ","b","y"," ","S","i","a">>}

\* req.body.format, 'MP3' when it is not there
Formats == {"MP3", "MP4"}

\* a request to one of these endpoints
SongExchange(at, route, song, format, url, invoked, http) ==
    [pc |-> at, route |-> route, header |-> undefined, song |-> song, format |-> format,
     url |-> url, invoked |-> invoked, http |-> http]

\* what the endpoints send when the body names nothing to download
songRequired(b) ==
    Reply(200, Some(FALSE), Some(IF b = 4 THEN "Song name required" ELSE "Song name or YouTube URL required"), Absent, FALSE, FALSE, FALSE)

\* the call of downloadMP4 or downloadMP3 that the format selects, and
\* whether the method sends a request for this url
downloadCall(b, format, url) ==
    LET client == IF format = "MP4" THEN "mp4" ELSE "mp3" IN
    [client |-> client, arg |-> url, sent |-> sends(b, client, IF refusesMP3(url) THEN "results" ELSE "video")]

\* the handler up to its first await or its response
downloadSong(b, song, youtube_url, format) ==
    LET route == IF b = 4 THEN "auto" ELSE "song" IN
    IF song = null /\ (b = 4 \/ youtube_url = null)
    THEN SongExchange("done", route, song, format, youtube_url, <<>>, songRequired(b))
    ELSE IF b = 7 /\ youtube_url # null
    THEN SongExchange("awaiting", route, song, format, youtube_url, <<downloadCall(b, format, youtube_url)>>, NoReply)
    ELSE SongExchange("searching", route, song, format, null, << [client |-> "search", arg |-> song, sent |-> TRUE] >>, NoReply)

\* the handler from the return of searchSong to its await of the download
afterSongSearch(b, e, outcome) ==
    LET searchResult == searchSong(e.song, outcome) IN
    [e EXCEPT !.pc = "awaiting", !.url = searchResult.url,
              !.invoked = @ \o <<downloadCall(b, e.format, searchResult.url)>>]

\* a song download endpoint receives a request
DownloadSong ==
    /\ ep.pc = "idle"
    /\ build \in SongBuilds
    /\ \E song \in Songs :
         \E youtube_url \in (IF build = 7 THEN Urls ELSE {null}) :
            \E format \in Formats :
               ep' = downloadSong(build, song, youtube_url, format)
    /\ UNCHANGED <<build, env, pc, req, intent, response, local, calls, random, resp, svc>>

\* searchSong returns and the handler calls the download method
SongSearchSettles ==
    /\ ep.pc = "searching"
    /\ \E outcome \in SearchOutcomes :
         ep' = afterSongSearch(build, ep, outcome)
    /\ UNCHANGED <<build, env, pc, req, intent, response, local, calls, random, resp, svc>>

\* the download method returns and the endpoint sends its result
SongDownloadSettles ==
    /\ ep.pc = "awaiting"
    /\ \E result \in downloadResults(build, ep.invoked[Len(ep.invoked)].client, ep.url) :
         ep' = [ep EXCEPT !.pc = "done", !.http = downloaded(build, result)]
    /\ UNCHANGED <<build, env, pc, req, intent, response, local, calls, random, resp, svc>>

NextSongDownload == DownloadSong \/ SongSearchSettles \/ SongDownloadSettles

SpecSongDownload == InitClients /\ [][NextSongDownload]_vars

\* the url of a page of YouTube search results
isResultsPage(url) == url # null /\ includes(url, <<"y","o","u","t","u","b","e",".","c","o","m","/","r","e","s","u","l","t","s","?">>)

\* C28: in the song download flows no download method sends a request for a
\* page of search results: when the search fell back to such a page, the
\* MP3 and the MP4 method alike return a failure without an outbound call
C28_NoResultsPageDownload ==
    \A i \in 1..Len(ep.invoked) :
        (/\ ep.invoked[1].client = "search"
         /\ ep.invoked[i].client \in {"mp3", "mp4"}
         /\ isResultsPage(ep.invoked[i].arg)) =>
            /\ ~ep.invoked[i].sent
            /\ ep.pc = "done" => ep.http.success = Some(FALSE)

\* C29: the chat endpoint answers with type admin_command only to a request
\* whose x-admin-token header is the configured admin token; a request
\* without the header never gets it, configured token or not
C29_AdminNeedsToken ==
    \A r \in Slots :
        (Done(r) /\ HasBody(r) /\ TheBody(r).type = "admin_command") =>
            /\ req[r].adminHeader # undefined
            /\ req[r].adminHeader = env.ADMIN_TOKEN

\* the handler of request r has sent a response
Responded(r) == resp[r] # NotSent

\* a response that was sent stays as it was sent, and its handler is done
SentOnce == \A r \in Slots : Responded(r) => (resp'[r] = resp[r] /\ pc'[r] = "done")

\* C30: every path of the chat handler sends exactly one response: a handler
\* is done exactly when it has sent one, whether it rejected the input,
\* answered an identity question, took an intent branch or failed, and no
\* step sends a second one
C30_ExactlyOneResponse ==
    /\ [](\A r \in Slots : Done(r) <=> Responded(r))
    /\ [][SentOnce]_vars

\* build 2 answered a request after its chat call and its speech call had
\* both failed
C30_Witness ==
    /\ build = 2
    /\ Done(1)
    /\ Len(calls[1]) = 2
    /\ calls[1][1].client = "chat" /\ calls[1][1].outcome \in FailedOutcomes
    /\ calls[1][2].client = "tts" /\ calls[1][2].outcome \in FailedOutcomes
    /\ Responded(1)
    /\ resp[1].status = 200
====
